---- MODULE Spec2Model ----
(***************************************************************************)
(* The webhook handler of src/index.ts and the exchange client of          *)
(* utils/bybit (the revision that exports cancelOppositeOrders and         *)
(* handleApiRequest, src/unnamed/part_003).  The placeFuturesOrder of the   *)
(* revision src/utils/bybit.ts has a section and a specification of its    *)
(* own (SpecLegacy).                                                       *)
(*                                                                         *)
(* A JavaScript object is a TLA+ record whose DOMAIN holds exactly the     *)
(* properties that are defined: reading a property outside the DOMAIN is   *)
(* reading `undefined`.  The empty object {} is << >>.                     *)
(* One action is one run-to-completion step of the event loop: the code    *)
(* between two awaits that wait for the network or for a timer.            *)
(***************************************************************************)
EXTENDS Integers, Sequences, FiniteSets, TLC

\* Largest number of entries of bybitConfigs that is explored.
MaxAccounts == 2

(***************************************************************************)
(* JavaScript values                                                       *)
(***************************************************************************)
Null == "<null>"

Has(o, k) == k \in DOMAIN o

\* `o.k` is truthy, for a property that holds a string when it is defined
Truthy(o, k) == Has(o, k) /\ o[k] # ""

Put(o, k, v) == [x \in (DOMAIN o) \cup {k} |-> IF x = k THEN v ELSE o[x]]

Without(o, k) == [x \in (DOMAIN o) \ {k} |-> o[x]]

Pick(o, ks) == [x \in (DOMAIN o) \cap ks |-> o[x]]

\* a decoded HTTP body: an object, a string that is not JSON, or null
JsObject(o) == [t |-> "object", o |-> o]
JsString(s) == [t |-> "string", s |-> s]
JsNull == [t |-> "null"]

\* the properties one can read from a non-null value
Props(d) == IF d.t = "object" THEN d.o ELSE << >>

TypeErrorMessage(prop) == "Cannot read properties of null (reading '" \o prop \o "')"
UndefinedErrorMessage(prop) == "Cannot read properties of undefined (reading '" \o prop \o "')"

(***************************************************************************)
(* Decimal strings.  A number is kept in units of 10^-5; NaN is its own    *)
(* value.  parseFloat is given on the decimal strings the model uses.      *)
(***************************************************************************)
Unit == 100000

NaN == [nan |-> TRUE, v |-> 0]
Num(n) == [nan |-> FALSE, v |-> n]

parseFloat(s) ==
  CASE s = "0" -> Num(0)
    [] s = "0.001" -> Num(100)
    [] s = "1" -> Num(Unit)
    [] s = "-1" -> Num(0 - Unit)
    [] s = "5" -> Num(5 * Unit)
    [] s = "-5" -> Num(0 - 5 * Unit)
    [] s = "10" -> Num(10 * Unit)
    [] s = "20" -> Num(20 * Unit)
    [] s = "50" -> Num(50 * Unit)
    [] s = "100" -> Num(100 * Unit)
    [] s = "30000" -> Num(30000 * Unit)
    [] OTHER -> NaN

\* a > b on numbers: false as soon as one side is NaN
Gt(a, b) == ~a.nan /\ ~b.nan /\ a.v > b.v

Abs(a) == IF a.nan THEN NaN ELSE Num(IF a.v < 0 THEN 0 - a.v ELSE a.v)

(***************************************************************************)
(* The delimited order string.  A string is a sequence of tokens: ","      *)
(* and " " are the characters the parser looks at, every other token is a  *)
(* run of other characters.                                                *)
(***************************************************************************)
RECURSIVE SplitFrom(_, _)
SplitFrom(s, cur) ==
  IF s = << >> THEN << cur >>
  ELSE IF Head(s) = "," THEN << cur >> \o SplitFrom(Tail(s), << >>)
  ELSE SplitFrom(Tail(s), Append(cur, Head(s)))

\* csvString.split(",")
Split(s) == SplitFrom(s, << >>)

RECURSIVE TrimLeft(_)
TrimLeft(s) == IF s # << >> /\ Head(s) = " " THEN TrimLeft(Tail(s)) ELSE s

RECURSIVE TrimRight(_)
TrimRight(s) ==
  IF s # << >> /\ s[Len(s)] = " " THEN TrimRight(SubSeq(s, 1, Len(s) - 1)) ELSE s

RECURSIVE Join(_)
Join(s) == IF s = << >> THEN "" ELSE Head(s) \o Join(Tail(s))

\* part.trim(), as a JavaScript string
Trim(s) == Join(TrimRight(TrimLeft(s)))

\* parts[i] is defined and not empty (i counts from 0)
PartSet(parts, i) == i < Len(parts) /\ parts[i + 1] # ""

\* parts[i] || dflt
PartOr(parts, i, dflt) == IF PartSet(parts, i) THEN parts[i + 1] ELSE dflt

\* parseInt(s, 10) on the position indexes of the exchange
parseInt(s) == CASE s = "0" -> 0 [] s = "1" -> 1 [] s = "2" -> 2 [] OTHER -> -1

\* s.toLowerCase() === "true"
LowerIsTrue(s) == s \in {"true", "True", "TRUE"}

\* SetIf that also sets a property whose segment is empty
SetIf_EvenEmpty(o, parts, i, k) == IF i < Len(parts) THEN Put(o, k, parts[i + 1]) ELSE o

SetIf(o, parts, i, k) == IF PartSet(parts, i) THEN Put(o, k, parts[i + 1]) ELSE o

parseOrderString(csvString) ==
  LET segs == Split(csvString)
      parts == [i \in 1..Len(segs) |-> Trim(segs[i])]
      base == [symbol |-> PartOr(parts, 0, ""),
               side |-> PartOr(parts, 1, "Buy"),
               orderType |-> PartOr(parts, 2, "Market"),
               qty |-> PartOr(parts, 3, "0")]
      p4 == SetIf(base, parts, 4, "price")
      p5 == SetIf(p4, parts, 5, "timeInForce")
      p6 == IF PartSet(parts, 6) THEN Put(p5, "positionIdx", parseInt(parts[7])) ELSE p5
      p7 == IF PartSet(parts, 7) THEN Put(p6, "reduceOnly", LowerIsTrue(parts[8])) ELSE p6
      p8 == IF PartSet(parts, 8) THEN Put(p7, "closeOnTrigger", LowerIsTrue(parts[9])) ELSE p7
      p9 == SetIf(p8, parts, 9, "takeProfit")
      p10 == SetIf(p9, parts, 10, "stopLoss")
      p11 == SetIf(p10, parts, 11, "tpTriggerBy")
      p12 == SetIf(p11, parts, 12, "slTriggerBy")
  IN  SetIf(p12, parts, 13, "orderLinkId")

(***************************************************************************)
(* Account configurations (./data/bybitConfigs) and webhook requests       *)
(***************************************************************************)
Config(n, key, secret, url) ==
  [name |-> n, apiKey |-> key, apiSecret |-> secret, baseUrl |-> url]

\* what the i-th entry of bybitConfigs can be
ConfigChoices(i) ==
  { Config(i, "key", "secret", "https://api.bybit.test"),
    Config(i, "", "secret", "https://api.bybit.test"),
    Config(i, "key", "secret", Null) }

ConfigLists ==
  UNION { { c \in [1..n -> UNION { ConfigChoices(i) : i \in 1..n }] :
              \A i \in 1..n : c[i] \in ConfigChoices(i) } : n \in 0..MaxAccounts }

\* Usable that does not look at baseUrl
Usable_AnyBaseUrl(config) ==
  /\ config.apiKey # Null
  /\ config.apiSecret # Null
  /\ config.apiKey # ""
  /\ config.apiSecret # ""

Usable(config) ==
  /\ config.apiKey # Null
  /\ config.apiSecret # Null
  /\ config.baseUrl # Null
  /\ config.apiKey # ""
  /\ config.apiSecret # ""
  /\ config.baseUrl # ""

\* bybitConfigs.filter(...)
validConfigs(configs) == SelectSeq(configs, Usable)

\* the client of one configuration: the handler reads only its name
initBybitClient(config) == [name |-> config.name]

MarketExample == [symbol |-> "BTCUSDT", side |-> "Buy", orderType |-> "Market", qty |-> "0.001"]

\* limitOrderJson of the example script, on the Sell side so that the
\* inputs cover both sides
LimitExample ==
  [symbol |-> "BTCUSDT", side |-> "Sell", orderType |-> "Limit", qty |-> "0.001",
   price |-> "30000", timeInForce |-> "GTC"]

\* JSON payloads: the two documented examples, and each with one property
\* removed or replaced; the percentages include one of 100
JsonPayloads ==
  { MarketExample, LimitExample }
  \cup { Without(MarketExample, k) : k \in DOMAIN MarketExample }
  \cup { Without(LimitExample, k) : k \in {"price", "timeInForce"} }
  \cup { Put(MarketExample, "qty", q) : q \in {"", "0", "-1", "abc"} }
  \cup { Put(MarketExample, "symbol", ""), Put(MarketExample, "side", "Sell"),
         Put(MarketExample, "orderType", "Limit"), Put(MarketExample, "price", "30000"),
         Put(LimitExample, "price", ""), Put(LimitExample, "orderType", "Market") }
  \cup { Put(MarketExample, "reduceOnly", b) : b \in BOOLEAN }
  \cup { Put(MarketExample, "takeProfit", "10"), Put(MarketExample, "stopLoss", "20") }
  \cup { Put(Put(MarketExample, "side", "Sell"), k, "10") : k \in {"takeProfit", "stopLoss"} }
  \cup { Put(Put(MarketExample, "side", "Sell"), "takeProfit", "100") }

\* delimited strings, as token sequences
CsvStrings ==
  { << >>,
    << "BTCUSDT" >>,
    << "BTCUSDT", ",", "Buy", ",", "Market", ",", "0.001" >>,
    << "BTCUSDT", ",", "Buy", ",", "Market", ",", "-1" >>,
    << ",", "Buy", ",", "Market", ",", "0.001" >>,
    << "BTCUSDT", ",", "Sell", ",", "Limit", ",", "0.001" >>,
    << "BTCUSDT", ",", "Sell", ",", "Limit", ",", "0.001", ",", " " >>,
    << " ", "BTCUSDT", " ", ",", "Sell", ",", " ", "Limit", ",", "0.001", ",", "30000" >>,
    << "BTCUSDT", ",", "Buy", ",", "Market", ",", "0.001", ",", ",", ",", ",", "TRUE" >>,
    << "BTCUSDT", ",", "Buy", ",", "Market", ",", "0.001", ",", ",", ",", "0", ",", "false",
       ",", "true", ",", "10", ",", "20", ",", "MarkPrice", ",", "LastPrice", ",", "link-1" >> }

Request(ct, body) == [contentType |-> ct, body |-> body]

\* every request the model sends to POST /webhook
Requests ==
  { Request("application/json", JsObject(o)) : o \in JsonPayloads }
  \cup { Request("text/plain", JsString(s)) : s \in CsvStrings }
  \cup { Request("application/json", JsObject([orderString |-> s])) :
           s \in { << "BTCUSDT", ",", "Buy", ",", "Limit", ",", "0.001" >>,
                   << "BTCUSDT", ",", "Sell", ",", "Market", ",", "0.001" >> } }
  \cup { Request("text/plain", JsObject(<< >>)) }

\* the requests explored with several accounts configured
FanoutRequests ==
  { Request("application/json", JsObject(MarketExample)),
    Request("application/json", JsObject(Put(MarketExample, "reduceOnly", FALSE))),
    Request("application/json", JsObject(Without(LimitExample, "price"))),
    Request("text/plain",
            JsString(<< " ", "BTCUSDT", " ", ",", "Sell", ",", " ", "Limit", ",", "0.001",
                        ",", "30000" >>)) }

(***************************************************************************)
(* POST /webhook up to the fan-out (index.ts, lines 23-143)                *)
(***************************************************************************)
Reject(status, msg) ==
  [respond |-> TRUE, status |-> status, body |-> [success |-> FALSE, error |-> msg]]

Crash(msg) ==
  [respond |-> TRUE, status |-> 500,
   body |-> [status |-> "error", message |-> "Error processing webhook", error |-> msg]]

Accept(params) == [respond |-> FALSE, params |-> params]

\* the string branch is taken (lines 48-52)
IsStringInput(request) ==
  \/ request.contentType = "text/plain"
  \/ request.body.t = "string"
  \/ (request.body.t = "object" /\ Has(request.body.o, "orderString")
        /\ request.body.o.orderString # << >>)

\* lines 53-55
OrderStringOf(request) ==
  IF request.contentType = "text/plain" THEN request.body
  ELSE IF request.body.t = "object" /\ Has(request.body.o, "orderString")
            /\ request.body.o.orderString # << >>
       THEN JsString(request.body.o.orderString)
       ELSE request.body

OptionalStrings ==
  {"price", "timeInForce", "takeProfit", "stopLoss", "tpTriggerBy", "slTriggerBy", "orderLinkId"}

OptionalDefined == {"positionIdx", "reduceOnly", "closeOnTrigger"}

\* lines 100-119: the four required properties plus the optional ones provided
JsonOrderParams(o) ==
  [k \in {"symbol", "side", "orderType", "qty"}
        \cup { x \in OptionalStrings : Truthy(o, x) }
        \cup { x \in OptionalDefined : Has(o, x) } |-> o[k]]

\* CheckParsed without the price check of lines 136-143
CheckParsed_NoPriceCheck(params) ==
  IF ~Truthy(params, "symbol") \/ ~Truthy(params, "side")
       \/ ~Truthy(params, "orderType") \/ ~Truthy(params, "qty")
  THEN Reject(400, "Missing required parameters after parsing the input.")
  ELSE Accept(params)

\* lines 122-143
CheckParsed(params) ==
  IF ~Truthy(params, "symbol") \/ ~Truthy(params, "side")
       \/ ~Truthy(params, "orderType") \/ ~Truthy(params, "qty")
  THEN Reject(400, "Missing required parameters after parsing the input.")
  ELSE IF params.orderType = "Limit" /\ ~Truthy(params, "price")
  THEN Reject(400, "Price is required for Limit orders.")
  ELSE Accept(params)

\* the handler from the first line to the fan-out: a response, or the
\* normalized order parameters
Normalize(configs, request) ==
  IF Len(validConfigs(configs)) = 0
  THEN Reject(500, "No valid API configurations available")
  ELSE IF IsStringInput(request)
  THEN LET str == OrderStringOf(request)
       IN  IF str.t # "string"
           THEN Crash("orderString.split is not a function")
           ELSE CheckParsed(parseOrderString(str.s))
  ELSE LET o == request.body.o
       IN  IF ~Truthy(o, "symbol") \/ ~Truthy(o, "side")
                \/ ~Truthy(o, "orderType") \/ ~Truthy(o, "qty")
           THEN Reject(400, "Missing required parameters. Please provide symbol, side, orderType, and qty.")
           ELSE IF o.orderType = "Limit" /\ ~Truthy(o, "price")
           THEN Reject(400, "Price is required for Limit orders.")
           ELSE CheckParsed(JsonOrderParams(o))

(***************************************************************************)
(* Transport: what one HTTP call can end in, and handleApiRequest          *)
(***************************************************************************)
\* a response with a 2xx status and the decoded body `data`
Ok2xx(data) == [kind |-> "2xx", data |-> data]

\* axios rejects with error.response set: a status outside 2xx
StatusError(data) ==
  [kind |-> "status", data |-> data, message |-> "Request failed with status code 500"]

\* axios rejects without error.response
NetworkError == [kind |-> "network", message |-> "Network Error"]

ExchangeOk(result) == Ok2xx(JsObject([retCode |-> 0, retMsg |-> "OK", result |-> result]))

ExchangeError(code, msg) ==
  Ok2xx(JsObject([retCode |-> code, retMsg |-> msg, result |-> << >>]))

Returned(v) == [threw |-> FALSE, value |-> v]
Threw(msg) == [threw |-> TRUE, message |-> msg]

\* ErrorResult that passes on the retCode of the error body, 0 included
ErrorResult_TrustBody(outcome) ==
  IF outcome.kind = "status"
  THEN IF outcome.data.t = "null"
       THEN Threw(TypeErrorMessage("retCode"))
       ELSE LET d == Props(outcome.data)
            IN  Returned([retCode |-> IF Has(d, "retCode") THEN d.retCode ELSE -1,
                          retMsg |-> IF Truthy(d, "retMsg") THEN d.retMsg ELSE outcome.message,
                          result |-> << >>])
  ELSE Returned([retCode |-> -1, retMsg |-> outcome.message, result |-> << >>])

\* the catch block: lines 181-193 (and 262-273)
ErrorResult(outcome) ==
  IF outcome.kind = "status"
  THEN IF outcome.data.t = "null"
       THEN Threw(TypeErrorMessage("retCode"))
       ELSE LET d == Props(outcome.data)
            IN  Returned([retCode |-> IF Has(d, "retCode") /\ d.retCode # 0
                                      THEN d.retCode ELSE -1,
                          retMsg |-> IF Truthy(d, "retMsg") THEN d.retMsg ELSE outcome.message,
                          result |-> << >>])
  ELSE Returned([retCode |-> -1, retMsg |-> outcome.message, result |-> << >>])

\* lines 133-195, from the response on: the record the caller gets, or the
\* exception that leaves the function
handleApiRequest(outcome) ==
  IF outcome.kind = "2xx"
  THEN IF outcome.data.t = "null"
       THEN Returned([retCode |-> -1, retMsg |-> TypeErrorMessage("retCode"), result |-> << >>])
       ELSE Returned(Pick(Props(outcome.data), {"retCode", "retMsg", "result"}))
  ELSE ErrorResult(outcome)

\* lines 230-275: the raw body on 2xx
getPositionInfo(outcome) ==
  IF outcome.kind = "2xx" THEN Returned(outcome.data)
  ELSE LET e == ErrorResult(outcome)
       IN  IF e.threw THEN e ELSE Returned(JsObject(e.value))

\* response.retCode !== 0, then the search of response.result.list: the
\* first entry of that symbol (with a size other than zero where the caller
\* asks for an open position), or the error that is thrown
FindInList(resp, dflt, notFound, symbol, open) ==
  IF ~Has(resp, "retCode") \/ resp.retCode # 0
  THEN Threw(IF Truthy(resp, "retMsg") THEN resp.retMsg ELSE dflt)
  ELSE IF ~Has(resp, "result") THEN Threw(UndefinedErrorMessage("list"))
  ELSE IF ~Has(resp.result, "list") THEN Threw(UndefinedErrorMessage("find"))
  ELSE LET l == resp.result.list
           hits == { i \in 1..Len(l) :
                       /\ l[i].symbol = symbol
                       /\ open => Gt(Abs(parseFloat(l[i].size)), Num(0)) }
       IN  IF hits = {} THEN notFound
           ELSE Returned(l[CHOOSE i \in hits : \A j \in hits : i <= j])

\* lines 48-71
getPositionData(outcome, symbol) ==
  LET r == getPositionInfo(outcome)
  IN  IF r.threw THEN r
      ELSE IF r.value.t = "null" THEN Threw(TypeErrorMessage("retCode"))
      ELSE LET f == FindInList(Props(r.value), "Failed to get position data",
                               Threw("No position found for symbol"), symbol, FALSE)
           IN  IF f.threw THEN f
               ELSE Returned([entryPrice |-> f.value.avgPrice,
                              markPrice |-> f.value.markPrice,
                              size |-> f.value.size,
                              leverage |-> f.value.leverage])

\* lines 73-102 (getMarketTickers goes through handleApiRequest)
getMarketData(outcome, symbol) ==
  LET r == handleApiRequest(outcome)
  IN  IF r.threw THEN r
      ELSE LET f == FindInList(r.value, "Failed to get market data",
                               Threw("No market data found for symbol"), symbol, FALSE)
           IN  IF f.threw THEN f
               ELSE Returned([lastPrice |-> f.value.lastPrice,
                              highPrice |-> f.value.highPrice24h,
                              lowPrice |-> f.value.lowPrice24h,
                              volume |-> f.value.volume24h,
                              fundingRate |-> f.value.fundingRate])

(***************************************************************************)
(* cancelOppositeOrders (lines 340-408), one operator per await            *)
(***************************************************************************)
FlattenFailed(msg) == [next |-> "return", res |-> [success |-> FALSE, message |-> msg]]

\* CloseOrderBody on the side of the position
CloseOrderBody_SameSide(symbol, position) ==
  [category |-> "linear",
   symbol |-> symbol,
   side |-> position.side,
   orderType |-> "Market",
   qty |-> position.size,
   reduceOnly |-> TRUE]

\* lines 372-387: the body of the close order
CloseOrderBody(symbol, position) ==
  [category |-> "linear",
   symbol |-> symbol,
   side |-> IF position.side = "Buy" THEN "Sell" ELSE "Buy",
   orderType |-> "Market",
   qty |-> position.size,
   reduceOnly |-> TRUE]

\* FlattenAfterRead that takes an entry of size zero for an open position
FlattenAfterRead_AnySize(outcome, symbol) ==
  LET r == handleApiRequest(outcome)
  IN  IF r.threw THEN FlattenFailed(r.message)
      ELSE LET f == FindInList(r.value, "Failed to fetch positions", Returned(<< >>),
                               symbol, FALSE)
           IN  IF f.threw THEN FlattenFailed(f.message)
               ELSE IF f.value = << >>
               THEN [next |-> "return",
                     res |-> [success |-> TRUE, message |-> "No existing position to close"]]
               ELSE [next |-> "close", position |-> f.value]

\* lines 359-370, after the position list was read: return, or go on to
\* close `position`
FlattenAfterRead(outcome, symbol) ==
  LET r == handleApiRequest(outcome)
  IN  IF r.threw THEN FlattenFailed(r.message)
      ELSE LET f == FindInList(r.value, "Failed to fetch positions", Returned(<< >>),
                               symbol, TRUE)
           IN  IF f.threw THEN FlattenFailed(f.message)
               ELSE IF f.value = << >>
               THEN [next |-> "return",
                     res |-> [success |-> TRUE, message |-> "No existing position to close"]]
               ELSE [next |-> "close", position |-> f.value]

\* FlattenAfterClose that reports a fixed text in place of retMsg
FlattenAfterClose_FixedMessage(outcome) ==
  LET r == handleApiRequest(outcome)
  IN  IF r.threw THEN FlattenFailed(r.message)
      ELSE IF ~Has(r.value, "retCode") \/ r.value.retCode # 0
      THEN FlattenFailed("Failed to close position")
      ELSE [next |-> "delay"]

\* lines 389-394, after the close order was answered: return the failure, or
\* wait the settlement delay
FlattenAfterClose(outcome) ==
  LET r == handleApiRequest(outcome)
  IN  IF r.threw THEN FlattenFailed(r.message)
      ELSE IF ~Has(r.value, "retCode") \/ r.value.retCode # 0
      THEN FlattenFailed(IF Truthy(r.value, "retMsg") THEN r.value.retMsg
                         ELSE "Failed to close position")
      ELSE [next |-> "delay"]

\* lines 396-399
FlattenClosed(symbol, position) ==
  [success |-> TRUE,
   message |-> "Successfully closed " \o position.side \o " position of "
                 \o position.size \o " " \o symbol]

(***************************************************************************)
(* placeFuturesOrder (lines 410-531)                                       *)
(***************************************************************************)
RECURSIVE GCD(_, _)
GCD(a, b) == IF b = 0 THEN a ELSE GCD(b, a % b)

\* a / b rounded to the nearest integer, halves away from zero (b > 0)
RoundDiv(a, b) ==
  IF a >= 0 THEN (2 * a + b) \div (2 * b) ELSE 0 - ((2 * (0 - a) + b) \div (2 * b))

\* Number(s) / 100 is kept as the percentage itself, in units
Number(s) == parseFloat(s)

\* base * (1 + sign * pct / 100) as a fraction n / d of units
Scaled(base, pct, sign) ==
  IF base.nan \/ pct.nan THEN [nan |-> TRUE, n |-> 0, d |-> 1]
  ELSE LET num == 100 * Unit + sign * pct.v
           den == 100 * Unit
           g == GCD(IF num < 0 THEN 0 - num ELSE num, den)
       IN  [nan |-> FALSE, n |-> base.v * (num \div g), d |-> den \div g]

\* x.toFixed(5): the decimal string of x, given by its value in units
toFixed(x) == IF x.nan THEN NaN ELSE Num(RoundDiv(x.n, x.d))

\* TakeProfitPrice that passes the percentage on
TakeProfitPrice_Raw(params, positionData, marketData) == parseFloat(params.takeProfit)

\* TakeProfitPrice that adds the percentage on both sides
TakeProfitPrice_SameSign(params, positionData, marketData) ==
  LET entryPrice == parseFloat(positionData.entryPrice)
      markPrice == parseFloat(marketData.lastPrice)
      tpPercent == Number(params.takeProfit)
      base == IF Gt(entryPrice, Num(0)) THEN entryPrice ELSE markPrice
  IN  toFixed(Scaled(base, tpPercent, 1))

\* lines 459-475
TakeProfitPrice(params, positionData, marketData) ==
  LET entryPrice == parseFloat(positionData.entryPrice)
      markPrice == parseFloat(marketData.lastPrice)
      tpPercent == Number(params.takeProfit)
      base == IF Gt(entryPrice, Num(0)) THEN entryPrice ELSE markPrice
  IN  IF params.side = "Buy" THEN toFixed(Scaled(base, tpPercent, 1))
      ELSE toFixed(Scaled(base, tpPercent, -1))

\* lines 477-493
StopLossPrice(params, positionData, marketData) ==
  LET entryPrice == parseFloat(positionData.entryPrice)
      markPrice == parseFloat(marketData.lastPrice)
      slPercent == Number(params.stopLoss)
      base == IF Gt(entryPrice, Num(0)) THEN entryPrice ELSE markPrice
  IN  IF params.side = "Buy" THEN toFixed(Scaled(base, slPercent, -1))
      ELSE toFixed(Scaled(base, slPercent, 1))

\* lines 449-453: the reduceOnly property of the body, if any
BodyReduceOnly(body, params) ==
  IF Has(params, "reduceOnly") THEN Put(body, "reduceOnly", params.reduceOnly) ELSE body

\* lines 449-453: what the branch leaves in `params`, the object of the caller
ParamsAfterBuild(params) ==
  IF Has(params, "reduceOnly") THEN params ELSE Put(params, "reduceOnly", TRUE)

CopyIfTruthy(body, params, k) == IF Truthy(params, k) THEN Put(body, k, params[k]) ELSE body

\* OrderBody that attaches the price whenever one was given
OrderBody_PriceAlways(params, positionData, marketData) ==
  LET b0 == [category |-> "linear", symbol |-> params.symbol, side |-> params.side,
             orderType |-> params.orderType, qty |-> params.qty]
      b1 == IF Truthy(params, "price") THEN Put(b0, "price", params.price) ELSE b0
      b2 == IF Truthy(params, "timeInForce") THEN Put(b1, "timeInForce", params.timeInForce)
            ELSE IF params.orderType = "Limit" THEN Put(b1, "timeInForce", "GTC")
            ELSE b1
      b3 == IF Has(params, "positionIdx") THEN Put(b2, "positionIdx", params.positionIdx) ELSE b2
      b4 == BodyReduceOnly(b3, params)
      b5 == IF Has(params, "closeOnTrigger")
            THEN Put(b4, "closeOnTrigger", params.closeOnTrigger) ELSE b4
      b6 == IF Truthy(params, "takeProfit")
            THEN Put(b5, "takeProfit", TakeProfitPrice(params, positionData, marketData)) ELSE b5
      b7 == IF Truthy(params, "stopLoss")
            THEN Put(b6, "stopLoss", StopLossPrice(params, positionData, marketData)) ELSE b6
      b8 == CopyIfTruthy(b7, params, "tpTriggerBy")
      b9 == CopyIfTruthy(b8, params, "slTriggerBy")
  IN  CopyIfTruthy(b9, params, "orderLinkId")

\* lines 415-506: the body sent to /v5/order/create
OrderBody(params, positionData, marketData) ==
  LET b0 == [category |-> "linear", symbol |-> params.symbol, side |-> params.side,
             orderType |-> params.orderType, qty |-> params.qty]
      b1 == IF Truthy(params, "price") /\ params.orderType = "Limit"
            THEN Put(b0, "price", params.price) ELSE b0
      b2 == IF Truthy(params, "timeInForce") THEN Put(b1, "timeInForce", params.timeInForce)
            ELSE IF params.orderType = "Limit" THEN Put(b1, "timeInForce", "GTC")
            ELSE b1
      b3 == IF Has(params, "positionIdx") THEN Put(b2, "positionIdx", params.positionIdx) ELSE b2
      b4 == BodyReduceOnly(b3, params)
      b5 == IF Has(params, "closeOnTrigger")
            THEN Put(b4, "closeOnTrigger", params.closeOnTrigger) ELSE b4
      b6 == IF Truthy(params, "takeProfit")
            THEN Put(b5, "takeProfit", TakeProfitPrice(params, positionData, marketData)) ELSE b5
      b7 == IF Truthy(params, "stopLoss")
            THEN Put(b6, "stopLoss", StopLossPrice(params, positionData, marketData)) ELSE b6
      b8 == CopyIfTruthy(b7, params, "tpTriggerBy")
      b9 == CopyIfTruthy(b8, params, "slTriggerBy")
  IN  CopyIfTruthy(b9, params, "orderLinkId")

\* lines 524-530: the catch block
OrderFailed(msg) == [success |-> FALSE, error |-> msg]

\* OrderResult with a fixed error text in place of retMsg and retCode
OrderResult_FixedError(resp) ==
  IF Has(resp, "retCode") /\ resp.retCode = 0
  THEN LET ok == [success |-> TRUE, message |-> "Order placed successfully"]
       IN  IF Has(resp, "result") THEN Put(ok, "data", resp.result) ELSE ok
  ELSE [success |-> FALSE, error |-> "Order failed"]

\* lines 510-523, from the record submitOrder returned
OrderResult(resp) ==
  IF Has(resp, "retCode") /\ resp.retCode = 0
  THEN LET ok == [success |-> TRUE, message |-> "Order placed successfully"]
       IN  IF Has(resp, "result") THEN Put(ok, "data", resp.result) ELSE ok
  ELSE LET r0 == [success |-> FALSE]
           r1 == IF Has(resp, "retMsg") THEN Put(r0, "error", resp.retMsg) ELSE r0
       IN  IF Has(resp, "retCode") THEN Put(r1, "code", resp.retCode) ELSE r1

\* lines 507-530, after the order-create call ended
SubmitResult(outcome) ==
  LET r == handleApiRequest(outcome)
  IN  IF r.threw THEN OrderFailed(r.message) ELSE OrderResult(r.value)

(***************************************************************************)
(* What the exchange answers in the model                                  *)
(***************************************************************************)
Position(side, size, avgPrice) ==
  [symbol |-> "BTCUSDT", side |-> side, size |-> size, avgPrice |-> avgPrice,
   markPrice |-> "50", leverage |-> "10"]

Ticker ==
  [symbol |-> "BTCUSDT", lastPrice |-> "100", highPrice24h |-> "100", lowPrice24h |-> "50",
   volume24h |-> "1", fundingRate |-> "0.001"]

(***************************************************************************)
(* State                                                                   *)
(***************************************************************************)
VARIABLES
  bybitConfigs,  \* the configured accounts
  stage,         \* "listening", "running" (fan-out in progress), "responded"
  request,       \* the webhook request, << >> before it arrives
  orderParams,   \* the one orderParams object all pipelines hold
  response,      \* the HTTP response of the webhook, << >> before it is sent
  pc,            \* per client: the await its pipeline is suspended at
  cancelRes,     \* per client: what cancelOppositeOrders returned
  closing,       \* per client: currentPosition in cancelOppositeOrders
  positionData,  \* per client: positionData in placeFuturesOrder
  marketData,    \* per client: marketData in placeFuturesOrder
  results,       \* per client: what its promise resolved to
  trace,         \* per client: requests sent, answers received, the timer
  calls,         \* calls of the client's functions made outside a webhook
  clock          \* Date.now(), in milliseconds

vars ==
  << bybitConfigs, stage, request, orderParams, response, pc, cancelRes, closing,
     positionData, marketData, results, trace, calls, clock >>

\* A webhook with at most one usable account is explored with every request
\* and every kind of answer; a fan-out over several accounts with the
\* requests and answers that take each branch of the pipeline.
Thorough == Len(validConfigs(bybitConfigs)) <= 1

\* calls that fail: an error code of the exchange, an error status whose
\* body is null
Failures == { ExchangeError(10001, "params error"), StatusError(JsNull) }

\* more calls that fail: no response at all, a 2xx body that is not JSON, an
\* error status whose body says retCode 0
MoreFailures ==
  IF Thorough
  THEN { NetworkError, Ok2xx(JsString("<html>")),
         StatusError(JsObject([retCode |-> 0, retMsg |-> "OK"])) }
  ELSE { }

PositionOutcomes ==
  { ExchangeOk([list |-> l]) : l \in { << >>, << Position("Buy", "5", "100") >> } }
  \cup (IF Thorough THEN { ExchangeOk([list |-> << Position("", "0", "0") >>]) } ELSE { })
  \cup Failures \cup MoreFailures

TickerOutcomes ==
  { ExchangeOk([list |-> << Ticker >>]), ExchangeOk([list |-> << >>]) }
  \cup Failures \cup MoreFailures

CreateOutcomes ==
  { ExchangeOk([orderId |-> "order-1", orderLinkId |-> ""]) } \cup Failures \cup MoreFailures

clients == [i \in 1..Len(validConfigs(bybitConfigs)) |-> initBybitClient(validConfigs(bybitConfigs)[i])]

Clients == DOMAIN pc

Sent(purpose, method, endpoint, payload) ==
  [ev |-> "request", purpose |-> purpose, method |-> method, endpoint |-> endpoint,
   payload |-> payload]

Answered(purpose, outcome) == [ev |-> "answer", purpose |-> purpose, outcome |-> outcome]

ReadQuery(symbol) == [category |-> "linear", symbol |-> symbol]

\* index.ts lines 166-170 and 184-195: the record of one account
AccountResult(c, orderResult) == Put(orderResult, "client", clients[c].name)

\* FlattenResult that reports a fixed text in place of cancelRes.message
FlattenResult_FixedError(c, res) ==
  [client |-> clients[c].name, success |-> FALSE, error |-> "Failed to close existing position"]

FlattenResult(c, res) == [client |-> clients[c].name, success |-> FALSE, error |-> res.message]

Init ==
  /\ bybitConfigs \in ConfigLists
  /\ stage = "listening"
  /\ request = << >>
  /\ orderParams = << >>
  /\ response = << >>
  /\ pc = << >>
  /\ cancelRes = << >>
  /\ closing = << >>
  /\ positionData = << >>
  /\ marketData = << >>
  /\ results = << >>
  /\ trace = << >>
  /\ calls = << >>
  /\ clock = 0

\* index.ts lines 18-159: a request arrives and is answered at once, or the
\* pipelines start and each sends its first request
Receive ==
  /\ stage = "listening"
  /\ \E req \in (IF Len(validConfigs(bybitConfigs)) <= 1 THEN Requests ELSE FanoutRequests) :
       LET n == Normalize(bybitConfigs, req)
           cs == 1..Len(validConfigs(bybitConfigs))
       IN  /\ request' = req
           /\ IF n.respond
              THEN /\ response' = [status |-> n.status, body |-> n.body]
                   /\ stage' = "responded"
                   /\ UNCHANGED << orderParams, pc, cancelRes, closing, positionData,
                                   marketData, results, trace >>
              ELSE /\ orderParams' = n.params
                   /\ stage' = "running"
                   /\ pc' = [c \in cs |-> "flatten.read"]
                   /\ trace' = [c \in cs |->
                                  << Sent("flatten.read", "GET", "/v5/position/list",
                                          ReadQuery(n.params.symbol)) >>]
                   /\ cancelRes' = [c \in cs |-> << >>]
                   /\ closing' = [c \in cs |-> << >>]
                   /\ positionData' = [c \in cs |-> << >>]
                   /\ marketData' = [c \in cs |-> << >>]
                   /\ results' = [c \in cs |-> << >>]
                   /\ UNCHANGED response
  /\ UNCHANGED << bybitConfigs, calls, clock >>

\* placeFuturesOrder up to its first await (lines 414-429)
StartOrder(c, tr) ==
  /\ pc' = [pc EXCEPT ![c] = "order.position"]
  /\ trace' = [trace EXCEPT ![c] =
       Append(tr, Sent("order.position", "GET", "/v5/position/list",
                       ReadQuery(orderParams.symbol)))]

\* Finish with one result slot shared by the pipelines that have ended
Finish_SharedResult(c, r, tr) ==
  /\ pc' = [pc EXCEPT ![c] = "done"]
  /\ results' = [d \in DOMAIN results |-> IF d = c \/ pc[d] = "done" THEN r ELSE results[d]]
  /\ trace' = [trace EXCEPT ![c] = tr]

\* the pipeline of client c ends with result r
Finish(c, r, tr) ==
  /\ pc' = [pc EXCEPT ![c] = "done"]
  /\ results' = [results EXCEPT ![c] = r]
  /\ trace' = [trace EXCEPT ![c] = tr]

\* FlattenRead that leaves a position on the side of the new order open
FlattenRead_OppositeOnly(c) ==
  /\ stage = "running" /\ pc[c] = "flatten.read"
  /\ \E outcome \in PositionOutcomes :
       LET g == FlattenAfterRead(outcome, orderParams.symbol)
           f == IF g.next = "close" /\ g.position.side = orderParams.side
                THEN [next |-> "return",
                      res |-> [success |-> TRUE, message |-> "No existing position to close"]]
                ELSE g
           tr == Append(trace[c], Answered("flatten.read", outcome))
       IN  IF f.next = "close"
           THEN /\ closing' = [closing EXCEPT ![c] = f.position]
                /\ pc' = [pc EXCEPT ![c] = "flatten.close"]
                /\ trace' = [trace EXCEPT ![c] =
                     Append(tr, Sent("flatten.close", "POST", "/v5/order/create",
                                     CloseOrderBody(orderParams.symbol, f.position)))]
                /\ UNCHANGED << cancelRes, results >>
           ELSE /\ cancelRes' = [cancelRes EXCEPT ![c] = f.res]
                /\ UNCHANGED closing
                /\ IF f.res.success
                   THEN StartOrder(c, tr) /\ UNCHANGED results
                   ELSE Finish(c, FlattenResult(c, f.res), tr)
  /\ UNCHANGED << clock, calls, bybitConfigs, stage, request, orderParams, response,
                  positionData, marketData >>

\* cancelOppositeOrders lines 347-387 and index.ts lines 161-179: the
\* position list of the flatten step is answered
FlattenRead(c) ==
  /\ stage = "running" /\ pc[c] = "flatten.read"
  /\ \E outcome \in PositionOutcomes :
       LET f == FlattenAfterRead(outcome, orderParams.symbol)
           tr == Append(trace[c], Answered("flatten.read", outcome))
       IN  IF f.next = "close"
           THEN /\ closing' = [closing EXCEPT ![c] = f.position]
                /\ pc' = [pc EXCEPT ![c] = "flatten.close"]
                /\ trace' = [trace EXCEPT ![c] =
                     Append(tr, Sent("flatten.close", "POST", "/v5/order/create",
                                     CloseOrderBody(orderParams.symbol, f.position)))]
                /\ UNCHANGED << cancelRes, results >>
           ELSE /\ cancelRes' = [cancelRes EXCEPT ![c] = f.res]
                /\ UNCHANGED closing
                /\ IF f.res.success
                   THEN StartOrder(c, tr) /\ UNCHANGED results
                   ELSE Finish(c, FlattenResult(c, f.res), tr)
  /\ UNCHANGED << clock, calls, bybitConfigs, stage, request, orderParams, response, positionData, marketData >>

\* FlattenClose that does not await the timer of line 394
FlattenClose_NoDelay(c) ==
  /\ stage = "running" /\ pc[c] = "flatten.close"
  /\ \E outcome \in CreateOutcomes :
       LET f == FlattenAfterClose(outcome)
           tr == Append(trace[c], Answered("flatten.close", outcome))
       IN  IF f.next = "delay"
           THEN /\ cancelRes' = [cancelRes EXCEPT ![c] =
                                   FlattenClosed(orderParams.symbol, closing[c])]
                /\ StartOrder(c, Append(tr, [ev |-> "timer", ms |-> 1000]))
                /\ UNCHANGED results
           ELSE /\ cancelRes' = [cancelRes EXCEPT ![c] = f.res]
                /\ Finish(c, FlattenResult(c, f.res), tr)
  /\ UNCHANGED << clock, calls, bybitConfigs, stage, request, orderParams, response, closing,
                  positionData, marketData >>

\* cancelOppositeOrders lines 389-394: the close order is answered
FlattenClose(c) ==
  /\ stage = "running" /\ pc[c] = "flatten.close"
  /\ \E outcome \in CreateOutcomes :
       LET f == FlattenAfterClose(outcome)
           tr == Append(trace[c], Answered("flatten.close", outcome))
       IN  IF f.next = "delay"
           THEN /\ pc' = [pc EXCEPT ![c] = "flatten.delay"]
                /\ trace' = [trace EXCEPT ![c] = Append(tr, [ev |-> "timer", ms |-> 1000])]
                /\ UNCHANGED << cancelRes, results >>
           ELSE /\ cancelRes' = [cancelRes EXCEPT ![c] = f.res]
                /\ Finish(c, FlattenResult(c, f.res), tr)
  /\ UNCHANGED << clock, calls, bybitConfigs, stage, request, orderParams, response, closing,
                  positionData, marketData >>

\* cancelOppositeOrders lines 394-399 and index.ts lines 173-179: the
\* settlement delay has elapsed
FlattenDelay(c) ==
  /\ stage = "running" /\ pc[c] = "flatten.delay"
  /\ cancelRes' = [cancelRes EXCEPT ![c] = FlattenClosed(orderParams.symbol, closing[c])]
  /\ StartOrder(c, Append(trace[c], [ev |-> "timeout", ms |-> 1000]))
  /\ UNCHANGED << clock, calls, bybitConfigs, stage, request, orderParams, response, closing,
                  positionData, marketData, results >>

\* OrderPosition that keeps the position flatten read, when it read one, in
\* place of the answer to its own request
OrderPosition_Cached(c) ==
  /\ stage = "running" /\ pc[c] = "order.position"
  /\ \E outcome \in PositionOutcomes :
       LET fresh == getPositionData(outcome, orderParams.symbol)
           p == IF closing[c] # << >> /\ ~fresh.threw
                THEN getPositionData(trace[c][2].outcome, orderParams.symbol)
                ELSE fresh
           tr == Append(trace[c], Answered("order.position", outcome))
       IN  IF p.threw
           THEN /\ Finish(c, AccountResult(c, OrderFailed(p.message)), tr)
                /\ UNCHANGED positionData
           ELSE /\ positionData' = [positionData EXCEPT ![c] = p.value]
                /\ pc' = [pc EXCEPT ![c] = "order.ticker"]
                /\ trace' = [trace EXCEPT ![c] =
                     Append(tr, Sent("order.ticker", "GET", "/v5/market/tickers",
                                     ReadQuery(orderParams.symbol)))]
                /\ UNCHANGED results
  /\ UNCHANGED << clock, calls, bybitConfigs, stage, request, orderParams, response, cancelRes, closing,
                  marketData >>

\* placeFuturesOrder lines 426-433: the position list is answered
OrderPosition(c) ==
  /\ stage = "running" /\ pc[c] = "order.position"
  /\ \E outcome \in PositionOutcomes :
       LET p == getPositionData(outcome, orderParams.symbol)
           tr == Append(trace[c], Answered("order.position", outcome))
       IN  IF p.threw
           THEN /\ Finish(c, AccountResult(c, OrderFailed(p.message)), tr)
                /\ UNCHANGED positionData
           ELSE /\ positionData' = [positionData EXCEPT ![c] = p.value]
                /\ pc' = [pc EXCEPT ![c] = "order.ticker"]
                /\ trace' = [trace EXCEPT ![c] =
                     Append(tr, Sent("order.ticker", "GET", "/v5/market/tickers",
                                     ReadQuery(orderParams.symbol)))]
                /\ UNCHANGED results
  /\ UNCHANGED << clock, calls, bybitConfigs, stage, request, orderParams, response, cancelRes, closing,
                  marketData >>

\* placeFuturesOrder lines 430-508: the ticker is answered, the body is built
\* and the order is sent
OrderTicker(c) ==
  /\ stage = "running" /\ pc[c] = "order.ticker"
  /\ \E outcome \in TickerOutcomes :
       LET m == getMarketData(outcome, orderParams.symbol)
           tr == Append(trace[c], Answered("order.ticker", outcome))
       IN  IF m.threw
           THEN /\ Finish(c, AccountResult(c, OrderFailed(m.message)), tr)
                /\ UNCHANGED << marketData, orderParams >>
           ELSE /\ marketData' = [marketData EXCEPT ![c] = m.value]
                /\ orderParams' = ParamsAfterBuild(orderParams)
                /\ pc' = [pc EXCEPT ![c] = "order.create"]
                /\ trace' = [trace EXCEPT ![c] =
                     Append(tr, Sent("order.create", "POST", "/v5/order/create",
                                     OrderBody(orderParams, positionData[c], m.value)))]
                /\ UNCHANGED results
  /\ UNCHANGED << clock, calls, bybitConfigs, stage, request, response, cancelRes, closing, positionData >>

\* OrderCreate that sends a refused order a second time
OrderCreate_RetryOnce(c) ==
  /\ stage = "running" /\ pc[c] = "order.create"
  /\ \E outcome \in CreateOutcomes :
       LET tr == Append(trace[c], Answered("order.create", outcome))
           sent == { i \in 1..Len(trace[c]) : trace[c][i].ev = "request"
                                               /\ trace[c][i].purpose = "order.create" }
       IN  IF ~SubmitResult(outcome).success /\ Cardinality(sent) < 2
           THEN /\ trace' = [trace EXCEPT ![c] =
                     Append(tr, trace[c][CHOOSE i \in sent : TRUE])]
                /\ UNCHANGED << pc, results >>
           ELSE Finish(c, AccountResult(c, SubmitResult(outcome)), tr)
  /\ UNCHANGED << clock, calls, bybitConfigs, stage, request, orderParams, response, cancelRes, closing,
                  positionData, marketData >>

\* placeFuturesOrder lines 508-530 and index.ts lines 182-187: the order is
\* answered
OrderCreate(c) ==
  /\ stage = "running" /\ pc[c] = "order.create"
  /\ \E outcome \in CreateOutcomes :
       Finish(c, AccountResult(c, SubmitResult(outcome)),
              Append(trace[c], Answered("order.create", outcome)))
  /\ UNCHANGED << clock, calls, bybitConfigs, stage, request, orderParams, response, cancelRes, closing,
                  positionData, marketData >>

\* every in place of some
anySuccess_Every(rs) == \A i \in DOMAIN rs : rs[i].success

\* results.some((result) => result.success)
anySuccess(rs) == \E i \in DOMAIN rs : rs[i].success

\* index.ts lines 200-217
WebhookResponse(rs) ==
  IF anySuccess(rs)
  THEN [status |-> 200,
        body |-> [status |-> "success",
                  message |-> "Webhook processed with some successful orders", results |-> rs]]
  ELSE [status |-> 400,
        body |-> [status |-> "error", message |-> "All orders failed", results |-> rs]]

\* Respond that answers only when some order succeeded
Respond_OnlyOnSuccess ==
  /\ stage = "running"
  /\ \A c \in Clients : pc[c] = "done"
  /\ anySuccess(results)
  /\ response' = WebhookResponse(results)
  /\ stage' = "responded"
  /\ UNCHANGED << bybitConfigs, request, orderParams, pc, cancelRes, closing, positionData,
                  marketData, results, trace, calls, clock >>

\* Promise.all(orderPromises) has resolved
Respond ==
  /\ stage = "running"
  /\ \A c \in Clients : pc[c] = "done"
  /\ response' = WebhookResponse(results)
  /\ stage' = "responded"
  /\ UNCHANGED << bybitConfigs, request, orderParams, pc, cancelRes, closing, positionData,
                  marketData, results, trace, calls, clock >>

Next ==
  \/ Receive
  \/ \E c \in Clients : FlattenRead(c)
  \/ \E c \in Clients : FlattenClose(c)
  \/ \E c \in Clients : FlattenDelay(c)
  \/ \E c \in Clients : OrderPosition(c)
  \/ \E c \in Clients : OrderTicker(c)
  \/ \E c \in Clients : OrderCreate(c)
  \/ Respond

Spec == Init /\ [][Next]_vars

(***************************************************************************)
(* handleApiRequest on its own: a caller makes up to MaxCalls calls, each  *)
(* ending in any of the outcomes an HTTP call can have                     *)
(***************************************************************************)
MaxCalls == 2

HttpOutcomes ==
  { ExchangeOk(<< >>), ExchangeOk([list |-> << >>]), ExchangeError(10001, "params error"),
    Ok2xx(JsObject(<< >>)), Ok2xx(JsString("")), Ok2xx(JsString("<html>")), Ok2xx(JsNull),
    StatusError(JsObject([retCode |-> 10003, retMsg |-> "API key is invalid."])),
    StatusError(JsObject([retCode |-> 0, retMsg |-> "OK"])),
    StatusError(JsObject(<< >>)), StatusError(JsString("")), StatusError(JsString("<html>")),
    StatusError(JsNull), NetworkError }

InitTransport ==
  /\ bybitConfigs = << >>
  /\ stage = "transport"
  /\ request = << >>
  /\ orderParams = << >>
  /\ response = << >>
  /\ pc = << >>
  /\ cancelRes = << >>
  /\ closing = << >>
  /\ positionData = << >>
  /\ marketData = << >>
  /\ results = << >>
  /\ trace = << >>
  /\ calls = << >>
  /\ clock = 0

\* one call of handleApiRequest ends
ApiCall ==
  /\ stage = "transport"
  /\ Len(calls) < MaxCalls
  /\ \E outcome \in HttpOutcomes :
       calls' = Append(calls, [outcome |-> outcome, ret |-> handleApiRequest(outcome)])
  /\ UNCHANGED << bybitConfigs, stage, request, orderParams, response, pc, cancelRes, closing,
                  positionData, marketData, results, trace, clock >>

NextTransport == ApiCall

SpecTransport == InitTransport /\ [][NextTransport]_vars

(***************************************************************************)
(* Request signing (part_003 lines 108-172 and 230-258).  A parameter      *)
(* object is the sequence of its entries in insertion order; a key is a    *)
(* sequence of characters, a value a sequence of tokens (a reserved        *)
(* character, or a run of characters that need no escaping).               *)
(***************************************************************************)
\* the characters of the keys, in ascending order of their UTF-16 code unit
Alphabet ==
  << " ", "&", "=", "B", "a", "b", "c", "e", "g", "i", "l", "m", "o", "r", "s", "t", "y" >>

CharCode(ch) == CHOOSE i \in 1..Len(Alphabet) : Alphabet[i] = ch

\* a < b as Array.prototype.sort() compares strings by default
RECURSIVE Before(_, _)
Before(a, b) ==
  IF a = << >> THEN b # << >>
  ELSE IF b = << >> THEN FALSE
  ELSE IF Head(a) = Head(b) THEN Before(Tail(a), Tail(b))
  ELSE CharCode(Head(a)) < CharCode(Head(b))

\* keys.sort(): the smallest key first, then the others sorted
RECURSIVE sort(_)
sort(keys) ==
  IF keys = << >> THEN << >>
  ELSE LET m == CHOOSE i \in 1..Len(keys) : \A j \in 1..Len(keys) : ~Before(keys[j], keys[i])
       IN  << keys[m] >> \o sort(SubSeq(keys, 1, m - 1) \o SubSeq(keys, m + 1, Len(keys)))

\* Object.keys(params), for keys that are not array indexes
ObjectKeys(params) == [i \in 1..Len(params) |-> params[i].key]

\* params[key]
Get(params, key) == params[CHOOSE i \in 1..Len(params) : params[i].key = key].value

EncodeToken(t) ==
  CASE t = " " -> "%20" [] t = "&" -> "%26" [] t = "=" -> "%3D" [] OTHER -> t

RECURSIVE encodeURIComponent(_)
encodeURIComponent(s) ==
  IF s = << >> THEN "" ELSE EncodeToken(Head(s)) \o encodeURIComponent(Tail(s))

\* strs.join(sep)
RECURSIVE JoinWith(_, _)
JoinWith(strs, sep) ==
  IF strs = << >> THEN ""
  ELSE IF Len(strs) = 1 THEN strs[1]
  ELSE strs[1] \o sep \o JoinWith(Tail(strs), sep)

\* getQueryString without the sort of line 110
getQueryString_Unsorted(params) ==
  LET keys == ObjectKeys(params)
  IN  JoinWith([i \in 1..Len(keys) |->
                  encodeURIComponent(keys[i]) \o "=" \o encodeURIComponent(Get(params, keys[i]))],
               "&")

\* lines 108-115
getQueryString(params) ==
  LET keys == sort(ObjectKeys(params))
  IN  JoinWith([i \in 1..Len(keys) |->
                  encodeURIComponent(keys[i]) \o "=" \o encodeURIComponent(Get(params, keys[i]))],
               "&")

\* an entry whose value is a string, and one whose value is a boolean
Entry(key, value) == [key |-> key, value |-> value, literal |-> FALSE]
Literal(key, value) == [key |-> key, value |-> value, literal |-> TRUE]

\* JSON.stringify of an object whose values are booleans or strings without
\* quotes and backslashes: the entries in insertion order
JSONstringify(params) ==
  "{" \o JoinWith([i \in 1..Len(params) |->
                     "\"" \o Join(params[i].key) \o "\":"
                       \o (IF params[i].literal THEN Join(params[i].value)
                           ELSE "\"" \o Join(params[i].value) \o "\"")],
                  ",") \o "}"

\* line 130
recvWindow == "5000"

\* crypto.createHmac("sha256", key).update(message).digest("hex"): the digest
\* is named by the key and the message it was computed from
createHmac(key, message) == [alg |-> "sha256", key |-> key, message |-> message]

\* generateSignature over a message without the key
generateSignature_NoApiKey(apiKey, apiSecret, timestamp, payload) ==
  createHmac(apiSecret, timestamp \o recvWindow \o payload)

\* generateSignature over a message without the timestamp
generateSignature_NoTimestamp(apiKey, apiSecret, timestamp, payload) ==
  createHmac(apiSecret, apiKey \o recvWindow \o payload)

\* lines 117-127
generateSignature(apiKey, apiSecret, timestamp, payload) ==
  createHmac(apiSecret, timestamp \o apiKey \o recvWindow \o payload)

Digit == << "0", "1", "2", "3", "4", "5", "6", "7", "8", "9" >>

\* n.toString() for n >= 0
RECURSIVE toString(_)
toString(n) == IF n < 10 THEN Digit[n + 1] ELSE toString(n \div 10) \o Digit[(n % 10) + 1]

\* the headers of lines 155-162 and 251-256
SignedHeaders(apiKey, timestamp, signature) ==
  [apiKey |-> apiKey, timestamp |-> timestamp, recvWindow |-> recvWindow, sign |-> signature]

\* ApiRequest that keeps the timestamp of the call before it
ApiRequest_StaleTimestamp(apiKey, apiSecret, endpoint, method, params, now) ==
  LET timestamp == IF calls # << >> THEN calls[Len(calls)].wire.headers.timestamp
                   ELSE toString(now)
      queryString == IF method = "POST" THEN "" ELSE getQueryString(params)
      payload == IF method = "POST" THEN JSONstringify(params) ELSE queryString
      signature == generateSignature(apiKey, apiSecret, timestamp, payload)
  IN  IF method = "POST"
      THEN [method |-> "POST", url |-> endpoint, body |-> payload,
            headers |-> SignedHeaders(apiKey, timestamp, signature)]
      ELSE [method |-> "GET", url |-> endpoint \o "?" \o queryString, body |-> Null,
            headers |-> SignedHeaders(apiKey, timestamp, signature)]

\* handleApiRequest lines 141-172: the HTTP request that is sent when the
\* clock reads `now`
ApiRequest(apiKey, apiSecret, endpoint, method, params, now) ==
  LET timestamp == toString(now)
      queryString == IF method = "POST" THEN "" ELSE getQueryString(params)
      payload == IF method = "POST" THEN JSONstringify(params) ELSE queryString
      signature == generateSignature(apiKey, apiSecret, timestamp, payload)
  IN  IF method = "POST"
      THEN [method |-> "POST", url |-> endpoint, body |-> payload,
            headers |-> SignedHeaders(apiKey, timestamp, signature)]
      ELSE [method |-> "GET", url |-> endpoint \o "?" \o queryString, body |-> Null,
            headers |-> SignedHeaders(apiKey, timestamp, signature)]

\* getPositionInfo lines 236-258
PositionInfoRequest(apiKey, apiSecret, params, now) ==
  LET timestamp == toString(now)
      queryString == getQueryString(params)
      signature == generateSignature(apiKey, apiSecret, timestamp, queryString)
  IN  [method |-> "GET", url |-> "/v5/position/list" \o "?" \o queryString, body |-> Null,
       headers |-> SignedHeaders(apiKey, timestamp, signature)]

(***************************************************************************)
(* The client's functions on their own: calls of generateSignature and     *)
(* parseOrderString with arguments from small sets                         *)
(***************************************************************************)
\* the variables of the webhook handler, which these calls leave alone
handlerVars ==
  << bybitConfigs, request, orderParams, response, pc, cancelRes, closing, positionData,
     marketData, results, trace >>

SignatureInputs ==
  [apiKey : {"k", "2k", "k2"}, apiSecret : {"s1", "s2"}, timestamp : {"1", "12", "21"},
   payload : {"", "a=1", "5000"}]

\* CsvStrings, and strings with empty segments between the ones that are set
ParseInputs ==
  CsvStrings
  \cup { << "BTCUSDT", ",", "Buy", ",", "Market", ",", "0.001", ",", ",", ",", ",", ",", ",",
            "10" >>,
         << "BTCUSDT", ",", "Sell", ",", "Market", ",", "5", ",", " ", ",", "IOC", ",", "2", ",",
            "false", ",", ",", ",", "20", ",", "MarkPrice", ",", ",", " ", "link-2", " " >> }

InitFunctions ==
  /\ bybitConfigs = << >>
  /\ stage = "functions"
  /\ request = << >>
  /\ orderParams = << >>
  /\ response = << >>
  /\ pc = << >>
  /\ cancelRes = << >>
  /\ closing = << >>
  /\ positionData = << >>
  /\ marketData = << >>
  /\ results = << >>
  /\ trace = << >>
  /\ calls = << >>
  /\ clock = 0

\* one call of generateSignature
SignCall ==
  /\ stage = "functions"
  /\ Len(calls) < MaxCalls
  /\ \E args \in SignatureInputs :
       calls' = Append(calls,
                  [fn |-> "generateSignature", args |-> args,
                   ret |-> generateSignature(args.apiKey, args.apiSecret, args.timestamp,
                                             args.payload)])
  /\ UNCHANGED << handlerVars, stage, clock >>

\* one call of parseOrderString
ParseCall ==
  /\ stage = "functions"
  /\ Len(calls) < MaxCalls
  /\ \E csvString \in ParseInputs :
       calls' = Append(calls, [fn |-> "parseOrderString", args |-> csvString,
                               ret |-> parseOrderString(csvString)])
  /\ UNCHANGED << handlerVars, stage, clock >>

NextFunctions == SignCall \/ ParseCall

SpecFunctions == InitFunctions /\ [][NextFunctions]_vars

(***************************************************************************)
(* The HTTP requests of one client: calls of handleApiRequest and          *)
(* getPositionInfo, built while the clock advances                         *)
(***************************************************************************)
\* Largest value of the clock that is explored.
MaxClock == 2

Category == << "c", "a", "t", "e", "g", "o", "r", "y" >>
Symbol == << "s", "y", "m", "b", "o", "l" >>

\* the query of lines 353-356 and 226
LinearQuery == << Entry(Category, << "linear" >>), Entry(Symbol, << "BTCUSDT" >>) >>

\* parameter objects of a GET: the query of the code, the same entries
\* inserted in the other order, and keys and values that need sorting and
\* escaping
GetParams ==
  { LinearQuery,
    << Entry(Symbol, << "BTCUSDT" >>), Entry(Category, << "linear" >>) >>,
    << Entry(<< "b" >>, << "2" >>), Entry(<< "a" >>, << "1" >>) >>,
    << Entry(<< "a" >>, << "1" >>), Entry(<< "b" >>, << "2" >>) >>,
    << Entry(<< "a", "b" >>, << "1" >>), Entry(<< "a" >>, << "x", "&", "y" >>),
       Entry(<< "B" >>, << "2" >>) >>,
    << Entry(<< "B" >>, << "2" >>), Entry(<< "a" >>, << "x", "&", "y" >>),
       Entry(<< "a", "b" >>, << "1" >>) >>,
    << Entry(<< "a", "=" >>, << "x", " ", "y" >>), Entry(<< "a" >>, << >>) >> }

\* the close order of lines 379-386
CloseOrderParams ==
  << Entry(Category, << "linear" >>), Entry(Symbol, << "BTCUSDT" >>),
     Entry(<< "s", "i", "d", "e" >>, << "Sell" >>),
     Entry(<< "o", "r", "d", "e", "r", "T", "y", "p", "e" >>, << "Market" >>),
     Entry(<< "q", "t", "y" >>, << "5" >>),
     Literal(<< "r", "e", "d", "u", "c", "e", "O", "n", "l", "y" >>, << "true" >>) >>

\* the calls one client makes
ClientCalls ==
  { [fn |-> "handleApiRequest", endpoint |-> e, method |-> "GET", params |-> q] :
      e \in {"/v5/position/list"}, q \in GetParams }
  \cup { [fn |-> "handleApiRequest", endpoint |-> "/v5/market/tickers", method |-> "GET",
          params |-> LinearQuery],
         [fn |-> "handleApiRequest", endpoint |-> "/v5/order/create", method |-> "POST",
          params |-> CloseOrderParams],
         [fn |-> "handleApiRequest", endpoint |-> "/v5/order/create", method |-> "POST",
          params |-> << Entry(Symbol, << "BTCUSDT" >>), Entry(Category, << "linear" >>) >>] }
  \cup { [fn |-> "getPositionInfo", endpoint |-> "/v5/position/list", method |-> "GET",
          params |-> q] : q \in { g \in GetParams : Len(g) = 2 } }

InitWire ==
  /\ bybitConfigs = << Config(1, "key", "secret", "https://api.bybit.test") >>
  /\ stage = "wire"
  /\ request = << >>
  /\ orderParams = << >>
  /\ response = << >>
  /\ pc = << >>
  /\ cancelRes = << >>
  /\ closing = << >>
  /\ positionData = << >>
  /\ marketData = << >>
  /\ results = << >>
  /\ trace = << >>
  /\ calls = << >>
  /\ clock = 0

\* time passes
Tick ==
  /\ stage = "wire"
  /\ clock < MaxClock
  /\ clock' = clock + 1
  /\ UNCHANGED << handlerVars, stage, calls >>

\* the request of one call, built at the current reading of the clock
WireRequest(call) ==
  LET apiKey == bybitConfigs[1].apiKey
      apiSecret == bybitConfigs[1].apiSecret
  IN  IF call.fn = "getPositionInfo"
      THEN PositionInfoRequest(apiKey, apiSecret, call.params, clock)
      ELSE ApiRequest(apiKey, apiSecret, call.endpoint, call.method, call.params, clock)

\* the client builds and sends one request
SendCall ==
  /\ stage = "wire"
  /\ Len(calls) < MaxCalls
  /\ \E call \in ClientCalls :
       calls' = Append(calls, [call |-> call, at |-> clock, wire |-> WireRequest(call)])
  /\ UNCHANGED << handlerVars, stage, clock >>

NextWire == Tick \/ SendCall

SpecWire == InitWire /\ [][NextWire]_vars

(***************************************************************************)
(* placeFuturesOrder of src/utils/bybit.ts, the revision whose              *)
(* cancelOppositeOrders cancels open orders (lines 339-512), called once.   *)
(* Here orderParams is the `params` of the call, closing[c] holds the       *)
(* entries of oppositeOrders the loop has not cancelled yet, and results[c] *)
(* is the promise of the call: pending with the record the try or catch     *)
(* block returned while finally runs, then resolved or rejected.            *)
(***************************************************************************)
\* bybit.ts lines 437-471: the price of property k, takeProfit or stopLoss
LegacyPrice(params, k, position, market) ==
  LET entryPrice == parseFloat(position.entryPrice)
      markPrice == parseFloat(market.lastPrice)
      percent == Number(params[k])
      base == IF Gt(entryPrice, Num(0)) THEN entryPrice ELSE markPrice
      up == IF k = "takeProfit" THEN params.side = "Buy" ELSE params.side # "Buy"
      x == Scaled(base, percent, IF up THEN 1 ELSE -1)
  IN  \* x.toFixed(2)
      IF x.nan THEN NaN ELSE Num(RoundDiv(x.n, x.d * 1000) * 1000)

\* bybit.ts lines 396-483: the body sent to /v5/order/create
LegacyOrderBody(params, position, market) ==
  LET b0 == [category |-> "linear", symbol |-> params.symbol, side |-> params.side,
             orderType |-> params.orderType, qty |-> params.qty]
      b1 == IF Truthy(params, "price") /\ params.orderType = "Limit"
            THEN Put(b0, "price", params.price) ELSE b0
      b2 == IF Truthy(params, "timeInForce") THEN Put(b1, "timeInForce", params.timeInForce)
            ELSE IF params.orderType = "Limit" THEN Put(b1, "timeInForce", "GTC")
            ELSE b1
      b3 == IF Has(params, "positionIdx") THEN Put(b2, "positionIdx", params.positionIdx) ELSE b2
      b4 == IF Has(params, "reduceOnly") THEN Put(b3, "reduceOnly", params.reduceOnly) ELSE b3
      b5 == IF Has(params, "closeOnTrigger")
            THEN Put(b4, "closeOnTrigger", params.closeOnTrigger) ELSE b4
      b6 == IF Truthy(params, "takeProfit")
            THEN Put(b5, "takeProfit", LegacyPrice(params, "takeProfit", position, market))
            ELSE b5
      b7 == IF Truthy(params, "stopLoss")
            THEN Put(b6, "stopLoss", LegacyPrice(params, "stopLoss", position, market))
            ELSE b6
      b8 == CopyIfTruthy(b7, params, "tpTriggerBy")
      b9 == CopyIfTruthy(b8, params, "slTriggerBy")
  IN  CopyIfTruthy(b9, params, "orderLinkId")

\* bybit.ts lines 347-367: the open orders on the other side, or the error
\* thrown
oppositeOrders(outcome, newOrderSide) ==
  LET r == handleApiRequest(outcome)
  IN  IF r.threw THEN r
      ELSE IF ~Has(r.value, "retCode") \/ r.value.retCode # 0
      THEN Threw(IF Truthy(r.value, "retMsg") THEN r.value.retMsg
                 ELSE "Failed to fetch open orders")
      ELSE IF ~Has(r.value, "result") THEN Threw(UndefinedErrorMessage("list"))
      ELSE IF ~Has(r.value.result, "list") THEN Threw(UndefinedErrorMessage("filter"))
      ELSE LET other == IF newOrderSide = "Buy" THEN "Sell" ELSE "Buy"
               l == r.value.result.list
               RECURSIVE filter(_)
               filter(i) == IF i > Len(l) THEN << >>
                            ELSE (IF l[i].side = other THEN << l[i] >> ELSE << >>)
                                   \o filter(i + 1)
           IN  Returned(filter(1))

\* what GET /v5/order/realtime is answered with
OpenOrdersOutcomes ==
  LET OpenOrder(side, orderId) == [symbol |-> "BTCUSDT", side |-> side, orderId |-> orderId]
  IN  { ExchangeOk([list |-> l]) :
          l \in { << >>, << OpenOrder("Sell", "o1") >>, << OpenOrder("Buy", "o1") >>,
                  << OpenOrder("Sell", "o1"), OpenOrder("Buy", "o2"),
                     OpenOrder("Sell", "o3") >> } }
      \cup Failures \cup MoreFailures

\* what POST /v5/order/cancel is answered with
CancelOutcomes ==
  { ExchangeOk([orderId |-> "o1", orderLinkId |-> ""]) } \cup Failures \cup MoreFailures

\* the call: bybit.ts lines 394-408, up to the first await
InitLegacy ==
  /\ bybitConfigs = << Config(1, "key", "secret", "https://api.bybit.test") >>
  /\ stage = "legacy"
  /\ request = << >>
  /\ orderParams \in { MarketExample, LimitExample,
                        Put(Put(MarketExample, "takeProfit", "10"), "stopLoss", "20") }
  /\ response = << >>
  /\ pc = << "order.position" >>
  /\ cancelRes = << << >> >>
  /\ closing = << << >> >>
  /\ positionData = << << >> >>
  /\ marketData = << << >> >>
  /\ results = << << >> >>
  /\ trace = << << Sent("order.position", "GET", "/v5/position/list",
                        ReadQuery(orderParams.symbol)) >> >>
  /\ calls = << >>
  /\ clock = 0

\* bybit.ts lines 508-511 and 345-358: the try or the catch block has
\* returned r; finally calls cancelOppositeOrders, which asks for the open
\* orders
Finally(c, r, tr) ==
  /\ results' = [results EXCEPT ![c] = [settled |-> "pending", value |-> r]]
  /\ pc' = [pc EXCEPT ![c] = "cancel.list"]
  /\ trace' = [trace EXCEPT ![c] =
       Append(tr, Sent("cancel.list", "GET", "/v5/order/realtime",
                       [category |-> "linear", symbol |-> orderParams.symbol, openOnly |-> 1]))]

\* the promise of placeFuturesOrder settles
SettlePromise(c, p, tr) ==
  /\ results' = [results EXCEPT ![c] = p]
  /\ pc' = [pc EXCEPT ![c] = "done"]
  /\ trace' = [trace EXCEPT ![c] = tr]

\* bybit.ts lines 405-412: the position list is answered
LegacyPosition(c) ==
  /\ stage = "legacy" /\ pc[c] = "order.position"
  /\ \E outcome \in PositionOutcomes :
       LET p == getPositionData(outcome, orderParams.symbol)
           tr == Append(trace[c], Answered("order.position", outcome))
       IN  IF p.threw
           THEN Finally(c, OrderFailed(p.message), tr) /\ UNCHANGED positionData
           ELSE /\ positionData' = [positionData EXCEPT ![c] = p.value]
                /\ pc' = [pc EXCEPT ![c] = "order.ticker"]
                /\ trace' = [trace EXCEPT ![c] =
                     Append(tr, Sent("order.ticker", "GET", "/v5/market/tickers",
                                     ReadQuery(orderParams.symbol)))]
                /\ UNCHANGED results
  /\ UNCHANGED << bybitConfigs, stage, request, orderParams, response, cancelRes, closing,
                  marketData, calls, clock >>

\* bybit.ts lines 409-486: the ticker is answered, the body is built and the
\* order is sent
LegacyTicker(c) ==
  /\ stage = "legacy" /\ pc[c] = "order.ticker"
  /\ \E outcome \in TickerOutcomes :
       LET m == getMarketData(outcome, orderParams.symbol)
           tr == Append(trace[c], Answered("order.ticker", outcome))
       IN  IF m.threw
           THEN Finally(c, OrderFailed(m.message), tr) /\ UNCHANGED marketData
           ELSE /\ marketData' = [marketData EXCEPT ![c] = m.value]
                /\ pc' = [pc EXCEPT ![c] = "order.create"]
                /\ trace' = [trace EXCEPT ![c] =
                     Append(tr, Sent("order.create", "POST", "/v5/order/create",
                                     LegacyOrderBody(orderParams, positionData[c], m.value)))]
                /\ UNCHANGED results
  /\ UNCHANGED << bybitConfigs, stage, request, orderParams, response, cancelRes, closing,
                  positionData, calls, clock >>

\* bybit.ts lines 486-511: the order is answered, try or catch returns and
\* finally begins
LegacyCreate(c) ==
  /\ stage = "legacy" /\ pc[c] = "order.create"
  /\ \E outcome \in CreateOutcomes :
       Finally(c, SubmitResult(outcome), Append(trace[c], Answered("order.create", outcome)))
  /\ UNCHANGED << bybitConfigs, stage, request, orderParams, response, cancelRes, closing,
                  positionData, marketData, calls, clock >>

\* bybit.ts lines 370-387, at the head of the loop over `orders`: the next
\* cancel request is sent, or cancelOppositeOrders returns and the promise
\* resolves with the record that was returned
CancelLoop(c, orders, tr) ==
  IF orders = << >>
  THEN /\ SettlePromise(c, [settled |-> "resolved", value |-> results[c].value], tr)
       /\ closing' = [closing EXCEPT ![c] = << >>]
  ELSE /\ closing' = [closing EXCEPT ![c] = Tail(orders)]
       /\ pc' = [pc EXCEPT ![c] = "cancel.order"]
       /\ trace' = [trace EXCEPT ![c] =
            Append(tr, Sent("cancel.order", "POST", "/v5/order/cancel",
                            [category |-> "linear", symbol |-> Head(orders).symbol,
                             orderId |-> Head(orders).orderId]))]
       /\ UNCHANGED results

\* bybit.ts lines 347-387 and 508-511: the list of open orders is answered
CancelList(c) ==
  /\ stage = "legacy" /\ pc[c] = "cancel.list"
  /\ \E outcome \in OpenOrdersOutcomes :
       LET o == oppositeOrders(outcome, orderParams.side)
           tr == Append(trace[c], Answered("cancel.list", outcome))
       IN  IF o.threw
           THEN SettlePromise(c, [settled |-> "rejected", reason |-> o.message], tr) /\ UNCHANGED closing
           ELSE CancelLoop(c, o.value, tr)
  /\ UNCHANGED << bybitConfigs, stage, request, orderParams, response, cancelRes,
                  positionData, marketData, calls, clock >>

\* bybit.ts lines 370-387 and 508-511: a cancel request is answered; what
\* the exchange answered is not looked at
CancelOrder(c) ==
  /\ stage = "legacy" /\ pc[c] = "cancel.order"
  /\ \E outcome \in CancelOutcomes :
       LET r == handleApiRequest(outcome)
           tr == Append(trace[c], Answered("cancel.order", outcome))
       IN  IF r.threw
           THEN SettlePromise(c, [settled |-> "rejected", reason |-> r.message], tr) /\ UNCHANGED closing
           ELSE CancelLoop(c, closing[c], tr)
  /\ UNCHANGED << bybitConfigs, stage, request, orderParams, response, cancelRes,
                  positionData, marketData, calls, clock >>

NextLegacy ==
  \/ \E c \in Clients : LegacyPosition(c)
  \/ \E c \in Clients : LegacyTicker(c)
  \/ \E c \in Clients : LegacyCreate(c)
  \/ \E c \in Clients : CancelList(c)
  \/ \E c \in Clients : CancelOrder(c)

SpecLegacy == InitLegacy /\ [][NextLegacy]_vars

(***************************************************************************)
(* Several webhooks for one account in flight at a time.  Each request     *)
(* runs the handler of index.ts lines 18-231 on its own; the handlers      *)
(* interleave at their awaits.  Here request, orderParams, response, pc,   *)
(* cancelRes, closing, positionData, marketData, results and trace are     *)
(* indexed by webhook.  The exchange holds one position of the account,    *)
(* open at first and flat once a close order has been filled; what it      *)
(* lists is what it holds.                                                 *)
(***************************************************************************)
\* Number of webhooks that arrive.
MaxWebhooks == 2

\* a close order has been filled
Filled == \E w \in DOMAIN trace : \E i \in 1..Len(trace[w]) : trace[w][i].ev = "settled"

\* what GET /v5/position/list is answered with
PositionAnswers ==
  { ExchangeOk([list |-> << IF Filled THEN Position("", "0", "0")
                            ELSE Position("Buy", "5", "100") >>]) }
  \cup Failures

InitConcurrent ==
  /\ bybitConfigs = << Config(1, "key", "secret", "https://api.bybit.test") >>
  /\ stage = "concurrent"
  /\ request = [w \in 1..MaxWebhooks |-> << >>]
  /\ orderParams = [w \in 1..MaxWebhooks |-> << >>]
  /\ response = [w \in 1..MaxWebhooks |-> << >>]
  /\ pc = [w \in 1..MaxWebhooks |-> "listening"]
  /\ cancelRes = [w \in 1..MaxWebhooks |-> << >>]
  /\ closing = [w \in 1..MaxWebhooks |-> << >>]
  /\ positionData = [w \in 1..MaxWebhooks |-> << >>]
  /\ marketData = [w \in 1..MaxWebhooks |-> << >>]
  /\ results = [w \in 1..MaxWebhooks |-> << >>]
  /\ trace = [w \in 1..MaxWebhooks |-> << >>]
  /\ calls = << >>
  /\ clock = 0

\* index.ts lines 18-159: webhook w arrives and is answered at once, or its
\* pipeline starts and sends its first request
Arrive(w) ==
  /\ stage = "concurrent" /\ pc[w] = "listening"
  /\ \E o \in { MarketExample, Put(MarketExample, "side", "Sell"),
                 Without(LimitExample, "price") } :
       LET req == Request("application/json", JsObject(o))
           n == Normalize(bybitConfigs, req)
       IN  /\ request' = [request EXCEPT ![w] = req]
           /\ IF n.respond
              THEN /\ response' = [response EXCEPT ![w] = [status |-> n.status, body |-> n.body]]
                   /\ pc' = [pc EXCEPT ![w] = "responded"]
                   /\ UNCHANGED << orderParams, trace >>
              ELSE /\ orderParams' = [orderParams EXCEPT ![w] = n.params]
                   /\ pc' = [pc EXCEPT ![w] = "flatten.read"]
                   /\ trace' = [trace EXCEPT ![w] =
                        << Sent("flatten.read", "GET", "/v5/position/list",
                                ReadQuery(n.params.symbol)) >>]
                   /\ UNCHANGED response
  /\ UNCHANGED << bybitConfigs, stage, cancelRes, closing, positionData, marketData, results,
                  calls, clock >>

\* placeFuturesOrder up to its first await (lines 414-429)
StartOrderOf(w, tr) ==
  /\ pc' = [pc EXCEPT ![w] = "order.position"]
  /\ trace' = [trace EXCEPT ![w] =
       Append(tr, Sent("order.position", "GET", "/v5/position/list",
                       ReadQuery(orderParams[w].symbol)))]

\* the pipeline of webhook w ends with result r
FinishOf(w, r, tr) ==
  /\ pc' = [pc EXCEPT ![w] = "done"]
  /\ results' = [results EXCEPT ![w] = r]
  /\ trace' = [trace EXCEPT ![w] = tr]

\* cancelOppositeOrders lines 347-387 and index.ts lines 161-179, in the
\* handler of webhook w
ReadToFlatten(w) ==
  /\ stage = "concurrent" /\ pc[w] = "flatten.read"
  /\ \E outcome \in PositionAnswers :
       LET f == FlattenAfterRead(outcome, orderParams[w].symbol)
           tr == Append(trace[w], Answered("flatten.read", outcome))
       IN  IF f.next = "close"
           THEN /\ closing' = [closing EXCEPT ![w] = f.position]
                /\ pc' = [pc EXCEPT ![w] = "flatten.close"]
                /\ trace' = [trace EXCEPT ![w] =
                     Append(tr, Sent("flatten.close", "POST", "/v5/order/create",
                                     CloseOrderBody(orderParams[w].symbol, f.position)))]
                /\ UNCHANGED << cancelRes, results >>
           ELSE /\ cancelRes' = [cancelRes EXCEPT ![w] = f.res]
                /\ UNCHANGED closing
                /\ IF f.res.success
                   THEN StartOrderOf(w, tr) /\ UNCHANGED results
                   ELSE FinishOf(w, FlattenResult(1, f.res), tr)
  /\ UNCHANGED << bybitConfigs, stage, request, orderParams, response, positionData,
                  marketData, calls, clock >>

\* cancelOppositeOrders lines 389-394, in the handler of webhook w
CloseAnswered(w) ==
  /\ stage = "concurrent" /\ pc[w] = "flatten.close"
  /\ \E outcome \in { ExchangeOk([orderId |-> "order-1", orderLinkId |-> ""]) } \cup Failures :
       LET f == FlattenAfterClose(outcome)
           tr == Append(trace[w], Answered("flatten.close", outcome))
       IN  IF f.next = "delay"
           THEN /\ pc' = [pc EXCEPT ![w] = "flatten.delay"]
                /\ trace' = [trace EXCEPT ![w] = Append(tr, [ev |-> "timer", ms |-> 1000])]
                /\ UNCHANGED << cancelRes, results >>
           ELSE /\ cancelRes' = [cancelRes EXCEPT ![w] = f.res]
                /\ FinishOf(w, FlattenResult(1, f.res), tr)
  /\ UNCHANGED << bybitConfigs, stage, request, orderParams, response, closing, positionData,
                  marketData, calls, clock >>

\* the exchange fills the close order of webhook w, accepted while the
\* position was open: the position is flat from here on
Fill(w) ==
  /\ stage = "concurrent" /\ ~Filled
  /\ \E i \in 1..Len(trace[w]) :
       /\ trace[w][i].ev = "answer" /\ trace[w][i].purpose = "flatten.close"
       /\ trace[w][i].outcome.kind = "2xx" /\ Props(trace[w][i].outcome.data).retCode = 0
  /\ trace' = [trace EXCEPT ![w] = Append(trace[w], [ev |-> "settled"])]
  /\ UNCHANGED << bybitConfigs, stage, request, orderParams, response, pc, cancelRes, closing,
                  positionData, marketData, results, calls, clock >>

\* cancelOppositeOrders lines 394-399 and index.ts lines 173-179, in the
\* handler of webhook w
DelayElapsed(w) ==
  /\ stage = "concurrent" /\ pc[w] = "flatten.delay"
  /\ cancelRes' = [cancelRes EXCEPT ![w] = FlattenClosed(orderParams[w].symbol, closing[w])]
  /\ StartOrderOf(w, Append(trace[w], [ev |-> "timeout", ms |-> 1000]))
  /\ UNCHANGED << bybitConfigs, stage, request, orderParams, response, closing, positionData,
                  marketData, results, calls, clock >>

\* placeFuturesOrder lines 426-433, in the handler of webhook w
PositionAnswered(w) ==
  /\ stage = "concurrent" /\ pc[w] = "order.position"
  /\ \E outcome \in PositionAnswers :
       LET p == getPositionData(outcome, orderParams[w].symbol)
           tr == Append(trace[w], Answered("order.position", outcome))
       IN  IF p.threw
           THEN /\ FinishOf(w, AccountResult(1, OrderFailed(p.message)), tr)
                /\ UNCHANGED positionData
           ELSE /\ positionData' = [positionData EXCEPT ![w] = p.value]
                /\ pc' = [pc EXCEPT ![w] = "order.ticker"]
                /\ trace' = [trace EXCEPT ![w] =
                     Append(tr, Sent("order.ticker", "GET", "/v5/market/tickers",
                                     ReadQuery(orderParams[w].symbol)))]
                /\ UNCHANGED results
  /\ UNCHANGED << bybitConfigs, stage, request, orderParams, response, cancelRes, closing,
                  marketData, calls, clock >>

\* placeFuturesOrder lines 430-508, in the handler of webhook w
TickerAnswered(w) ==
  /\ stage = "concurrent" /\ pc[w] = "order.ticker"
  /\ \E outcome \in { ExchangeOk([list |-> << Ticker >>]) } \cup Failures :
       LET m == getMarketData(outcome, orderParams[w].symbol)
           tr == Append(trace[w], Answered("order.ticker", outcome))
       IN  IF m.threw
           THEN /\ FinishOf(w, AccountResult(1, OrderFailed(m.message)), tr)
                /\ UNCHANGED << marketData, orderParams >>
           ELSE /\ marketData' = [marketData EXCEPT ![w] = m.value]
                /\ orderParams' = [orderParams EXCEPT ![w] = ParamsAfterBuild(orderParams[w])]
                /\ pc' = [pc EXCEPT ![w] = "order.create"]
                /\ trace' = [trace EXCEPT ![w] =
                     Append(tr, Sent("order.create", "POST", "/v5/order/create",
                                     OrderBody(orderParams[w], positionData[w], m.value)))]
                /\ UNCHANGED results
  /\ UNCHANGED << bybitConfigs, stage, request, response, cancelRes, closing, positionData,
                  calls, clock >>

\* placeFuturesOrder lines 508-530 and index.ts lines 182-187, in the handler
\* of webhook w
CreateAnswered(w) ==
  /\ stage = "concurrent" /\ pc[w] = "order.create"
  /\ \E outcome \in { ExchangeOk([orderId |-> "order-1", orderLinkId |-> ""]) } \cup Failures :
       FinishOf(w, AccountResult(1, SubmitResult(outcome)),
                Append(trace[w], Answered("order.create", outcome)))
  /\ UNCHANGED << bybitConfigs, stage, request, orderParams, response, cancelRes, closing,
                  positionData, marketData, calls, clock >>

\* index.ts lines 200-217: webhook w is answered
Answer(w) ==
  /\ stage = "concurrent" /\ pc[w] = "done"
  /\ response' = [response EXCEPT ![w] = WebhookResponse(<< results[w] >>)]
  /\ pc' = [pc EXCEPT ![w] = "responded"]
  /\ UNCHANGED << bybitConfigs, stage, request, orderParams, cancelRes, closing, positionData,
                  marketData, results, trace, calls, clock >>

NextConcurrent ==
  \/ \E w \in 1..MaxWebhooks : Arrive(w)
  \/ \E w \in 1..MaxWebhooks : ReadToFlatten(w)
  \/ \E w \in 1..MaxWebhooks : CloseAnswered(w)
  \/ \E w \in 1..MaxWebhooks : Fill(w)
  \/ \E w \in 1..MaxWebhooks : DelayElapsed(w)
  \/ \E w \in 1..MaxWebhooks : PositionAnswered(w)
  \/ \E w \in 1..MaxWebhooks : TickerAnswered(w)
  \/ \E w \in 1..MaxWebhooks : CreateAnswered(w)
  \/ \E w \in 1..MaxWebhooks : Answer(w)

SpecConcurrent == InitConcurrent /\ [][NextConcurrent]_vars

(***************************************************************************)
(* Properties                                                              *)
(***************************************************************************)
IsRequest(e, purpose) == e.ev = "request" /\ e.purpose = purpose

IsAnswer(e, purpose) == e.ev = "answer" /\ e.purpose = purpose

\* the exchange accepted the call: a 2xx response with retCode 0
Accepted(outcome) ==
  outcome.kind = "2xx" /\ Has(Props(outcome.data), "retCode") /\ Props(outcome.data).retCode = 0

RequestsOf(c, purpose) == { i \in 1..Len(trace[c]) : IsRequest(trace[c][i], purpose) }

AnswersOf(c, purpose) == { i \in 1..Len(trace[c]) : IsAnswer(trace[c][i], purpose) }

\* the pipelines were started
FannedOut == DOMAIN pc # {}

\* the order parameters as the handler normalized them, before any pipeline ran
NormalizedParams == Normalize(bybitConfigs, request).params

\* C1: if the flatten step of an account returns success=false, no
\* order-create request for the new order is sent for that account, and the
\* account's result is success=false with the flatten failure message as error.
FlattenFailureIsFatal ==
  \A c \in Clients :
    (cancelRes[c] # << >> /\ ~cancelRes[c].success) =>
      /\ RequestsOf(c, "order.create") = {}
      /\ pc[c] = "done"
      /\ results[c].success = FALSE
      /\ results[c].error = cancelRes[c].message

\* an account whose close order was refused, in a webhook that was answered
FlattenFailureWitness ==
  /\ stage = "responded"
  /\ \E c \in Clients :
       /\ closing[c] # << >>
       /\ cancelRes[c] # << >> /\ ~cancelRes[c].success
       /\ results[c].error = "params error"

\* C2: when flatten sent a close order, the order-create request for the new
\* order is sent only after the close order was answered with retCode 0 and
\* the settlement timer, started after that answer, has fired; while the
\* timer runs no new order has been sent.
SettlementDelayBeforeOrder ==
  \A c \in Clients :
    /\ \A q \in RequestsOf(c, "flatten.close") : \A i \in RequestsOf(c, "order.create") :
         \E j \in AnswersOf(c, "flatten.close") : \E t, k \in 1..Len(trace[c]) :
           /\ q < j /\ j < t /\ t < k /\ k < i
           /\ Accepted(trace[c][j].outcome)
           /\ trace[c][t].ev = "timer" /\ trace[c][t].ms = 1000
           /\ trace[c][k].ev = "timeout" /\ trace[c][k].ms = 1000
    /\ pc[c] \in {"flatten.close", "flatten.delay"} => RequestsOf(c, "order.create") = {}

\* an account that closed a position and then sent its new order
SettlementDelayWitness ==
  \E c \in Clients :
    /\ RequestsOf(c, "flatten.close") # {}
    /\ RequestsOf(c, "order.create") # {}

\* the exchange accepted the new order of client c
OrderAccepted(c) == \E i \in AnswersOf(c, "order.create") : Accepted(trace[c][i].outcome)

\* C3: after a fan-out the response is 200 "success" if and only if at least
\* one account's result has success=true and 400 "error" otherwise; its
\* results list has one entry per usable credential, in credential order,
\* each the result of that account's own pipeline.
AggregateResponse ==
  (stage = "responded" /\ FannedOut) =>
    LET valid == validConfigs(bybitConfigs)
        rs == response.body.results
        some == \E c \in Clients : OrderAccepted(c)
    IN  /\ Len(valid) >= 1
        /\ (response.status = 200 /\ response.body.status = "success") <=> some
        /\ (response.status = 400 /\ response.body.status = "error") <=> ~some
        /\ DOMAIN rs = 1..Len(valid)
        /\ \A i \in 1..Len(valid) :
             /\ rs[i].client = valid[i].name
             /\ rs[i] = results[i]
             /\ rs[i].success <=> OrderAccepted(i)

\* two accounts, one order accepted and one refused, answered 200
AggregateResponseWitness ==
  /\ stage = "responded" /\ response.status = 200
  /\ \E a, b \in Clients :
       /\ response.body.results[a].success
       /\ ~response.body.results[b].success
       /\ Has(response.body.results[b], "code")

\* the outcome of the answer client c got for the call `purpose`
AnswerTo(c, purpose) == trace[c][CHOOSE i \in AnswersOf(c, purpose) : TRUE].outcome

\* the result of client c computed from the answers to its own calls alone
SoloResult(c) ==
  LET symbol == NormalizedParams.symbol
      f == FlattenAfterRead(AnswerTo(c, "flatten.read"), symbol)
      g == FlattenAfterClose(AnswerTo(c, "flatten.close"))
      p == getPositionData(AnswerTo(c, "order.position"), symbol)
      m == getMarketData(AnswerTo(c, "order.ticker"), symbol)
  IN  IF f.next = "return" /\ ~f.res.success THEN FlattenResult(c, f.res)
      ELSE IF f.next = "close" /\ g.next = "return" THEN FlattenResult(c, g.res)
      ELSE IF p.threw THEN AccountResult(c, OrderFailed(p.message))
      ELSE IF m.threw THEN AccountResult(c, OrderFailed(m.message))
      ELSE AccountResult(c, SubmitResult(AnswerTo(c, "order.create")))

\* one step of the pipeline of client c
PipelineStep(c) ==
  \/ FlattenRead(c) \/ FlattenClose(c) \/ FlattenDelay(c)
  \/ OrderPosition(c) \/ OrderTicker(c) \/ OrderCreate(c)

SameBodyAsAlone ==
  \A c \in Clients : \A i \in RequestsOf(c, "order.create") :
    trace[c][i].payload = OrderBody(NormalizedParams, positionData[c], marketData[c])

\* C5, second half: no pipeline modifies the normalized order parameters.
ParamsNotModified == FannedOut => orderParams = NormalizedParams

\* the string branch has a string to parse
ParsesString(req) == IsStringInput(req) /\ OrderStringOf(req).t = "string"

\* the trimmed segments of the order string of a request
PartsOf(req) ==
  LET segs == Split(OrderStringOf(req).s) IN [i \in 1..Len(segs) |-> Trim(segs[i])]

\* the request gives no value for the property that is segment i of the
\* order string
Missing(req, k, i) ==
  IF ParsesString(req) THEN ~PartSet(PartsOf(req), i)
  ELSE ~IsStringInput(req) /\ ~Truthy(req.body.o, k)

\* the request says `orderType` in the property that is segment 2
IsLimit(req) ==
  IF ParsesString(req) THEN PartSet(PartsOf(req), 2) /\ PartsOf(req)[3] = "Limit"
  ELSE ~IsStringInput(req) /\ Has(req.body.o, "orderType") /\ req.body.o.orderType = "Limit"

LimitWithoutPrice(req) == IsLimit(req) /\ Missing(req, "price", 4)

\* C6 as claimed: a request whose orderType is "Limit" and whose price is
\* missing or empty is answered 400 and no request is sent to the exchange.
LimitWithoutPriceIs400 ==
  (request # << >> /\ LimitWithoutPrice(request)) =>
    /\ stage = "responded" /\ response.status = 400
    /\ ~FannedOut /\ trace = << >>

\* C6 as amended: such a request is answered 400 when a usable credential
\* exists and 500 when none does, and in both cases no request is sent to
\* the exchange.
LimitWithoutPriceRejected ==
  (request # << >> /\ LimitWithoutPrice(request)) =>
    /\ stage = "responded"
    /\ response.status = (IF Len(validConfigs(bybitConfigs)) = 0 THEN 500 ELSE 400)
    /\ ~FannedOut /\ trace = << >>

\* a delimited Limit order without price was answered 400
LimitWithoutPriceWitness ==
  /\ request # << >> /\ ParsesString(request) /\ LimitWithoutPrice(request)
  /\ Len(PartsOf(request)) >= 4
  /\ stage = "responded" /\ response.status = 400

LacksRequired(req) ==
  \/ Missing(req, "symbol", 0) \/ Missing(req, "side", 1)
  \/ Missing(req, "orderType", 2) \/ Missing(req, "qty", 3)
  \/ LimitWithoutPrice(req)

\* C7: the order parameters the pipelines get have non-empty symbol, side,
\* orderType and qty, and a non-empty price when orderType is "Limit"; with
\* a usable credential configured, a request that lacks one of them is
\* answered 400 before any exchange call.
RequiredFieldsEnforced ==
  /\ FannedOut =>
       /\ \A k \in {"symbol", "side", "orderType", "qty"} : Truthy(orderParams, k)
       /\ orderParams.orderType = "Limit" => Truthy(orderParams, "price")
  /\ (request # << >> /\ Len(validConfigs(bybitConfigs)) > 0 /\ LacksRequired(request)) =>
       /\ stage = "responded" /\ response.status = 400
       /\ ~FannedOut /\ trace = << >>

\* the quantity a request gives parses to a number greater than zero
QtyPositive(req) ==
  IF ParsesString(req)
  THEN PartSet(PartsOf(req), 3) /\ Gt(parseFloat(PartsOf(req)[4]), Num(0))
  ELSE ~IsStringInput(req) /\ Has(req.body.o, "qty") /\ Gt(parseFloat(req.body.o.qty), Num(0))

\* C8: every order that reaches the exchange has a quantity that parses to
\* a number greater than zero; with a usable credential configured, a request
\* whose quantity is zero, negative, not a number or omitted is rejected
\* before any exchange call.
QuantityPositive ==
  /\ FannedOut => Gt(parseFloat(orderParams.qty), Num(0))
  /\ (request # << >> /\ Len(validConfigs(bybitConfigs)) > 0 /\ ~QtyPositive(request)) =>
       /\ stage = "responded" /\ response.status >= 400
       /\ ~FannedOut /\ trace = << >>

\* the exchange's own code can be read from the response
CodeAvailable(outcome) ==
  outcome.kind \in {"2xx", "status"} /\ Has(Props(outcome.data), "retCode")

\* C9: handleApiRequest never throws: for every outcome of the HTTP call it
\* returns a record, whose retCode is -1 whenever the exchange's own code is
\* unavailable.
UniformResult ==
  \A i \in 1..Len(calls) :
    /\ ~calls[i].ret.threw
    /\ ~CodeAvailable(calls[i].outcome) =>
         (Has(calls[i].ret.value, "retCode") /\ calls[i].ret.value.retCode = -1)

\* C10: when the order-create call of the new order returns retCode 0 the
\* account's result is success=true with data equal to the exchange's
\* result; with any other retCode it is success=false with error equal to
\* retMsg and code equal to retCode.
OrderResultMapping ==
  \A c \in Clients : \A i \in AnswersOf(c, "order.create") :
    LET r == handleApiRequest(trace[c][i].outcome)
        defined(o, k, v) == Has(o, k) /\ o[k] = v
    IN  ~r.threw =>
          /\ pc[c] = "done" /\ results[c].client = clients[c].name
          /\ IF Has(r.value, "retCode") /\ r.value.retCode = 0
             THEN /\ results[c].success = TRUE
                  /\ Has(r.value, "result") => defined(results[c], "data", r.value.result)
             ELSE /\ results[c].success = FALSE
                  /\ Has(r.value, "retMsg") => defined(results[c], "error", r.value.retMsg)
                  /\ Has(r.value, "retCode") => defined(results[c], "code", r.value.retCode)
                  /\ ~Has(results[c], "data")

\* an order accepted with the exchange's data and an order refused with the
\* exchange's code, in one webhook
OrderResultMappingWitness ==
  \E a, b \in Clients :
    /\ pc[a] = "done" /\ results[a].success /\ results[a].data.orderId = "order-1"
    /\ pc[b] = "done" /\ Has(results[b], "code") /\ results[b].code = 10001
    /\ AnswersOf(b, "order.create") # {}

\* the exchange answered the call with a retCode other than 0
Refused(outcome) ==
  outcome.kind = "2xx" /\ Has(Props(outcome.data), "retCode") /\ Props(outcome.data).retCode # 0

\* C11: in placeFuturesOrder a position-list or ticker call answered with
\* retCode != 0 does not fail the order: after a refused position read the
\* ticker is still requested, and after a refused read of either kind the
\* order-create request is sent once both reads have ended, without derived
\* takeProfit and stopLoss.
SnapshotFailureTolerated ==
  \A c \in Clients :
    /\ \A i \in AnswersOf(c, "order.position") :
         Refused(trace[c][i].outcome) => RequestsOf(c, "order.ticker") # {}
    /\ \A i \in AnswersOf(c, "order.position") \cup AnswersOf(c, "order.ticker") :
         (Refused(trace[c][i].outcome) /\ AnswersOf(c, "order.ticker") # {}) =>
           /\ RequestsOf(c, "order.create") # {}
           /\ \A j \in RequestsOf(c, "order.create") :
                /\ ~Has(trace[c][j].payload, "takeProfit")
                /\ ~Has(trace[c][j].payload, "stopLoss")

\* the exchange answered retCode 0 with a list that has no entry for the symbol
NoEntry(outcome, symbol) ==
  /\ Accepted(outcome)
  /\ Has(Props(outcome.data), "result") /\ Has(Props(outcome.data).result, "list")
  /\ LET l == Props(outcome.data).result.list
     IN  \A i \in 1..Len(l) : l[i].symbol # symbol

\* C12: getPositionData and getMarketData return a value, not an error,
\* when the exchange answers retCode 0 with no entry for the symbol: the
\* pipeline goes on to its next call (the ticker after the position read,
\* order-create after the ticker) and no account result reports the absence
\* as an error.
AbsenceIsAValue ==
  \A c \in Clients :
    /\ \A i \in AnswersOf(c, "order.position") :
         NoEntry(trace[c][i].outcome, orderParams.symbol) =>
           RequestsOf(c, "order.ticker") # {}
    /\ \A i \in AnswersOf(c, "order.ticker") :
         NoEntry(trace[c][i].outcome, orderParams.symbol) =>
           RequestsOf(c, "order.create") # {}
    /\ (pc[c] = "done" /\ Has(results[c], "error")) =>
         results[c].error \notin {"No position found for symbol",
                                  "No market data found for symbol"}

\* C13: the body placeFuturesOrder sends to order-create carries
\* reduceOnly = true when the request leaves reduceOnly unset, and exactly
\* the requested value when the request sets it.
ReduceOnlyDefaultsToTrue ==
  \A c \in Clients : \A i \in RequestsOf(c, "order.create") :
    LET body == trace[c][i].payload
    IN  /\ Has(body, "reduceOnly")
        /\ body.reduceOnly =
             (IF Has(NormalizedParams, "reduceOnly") THEN NormalizedParams.reduceOnly ELSE TRUE)

\* the percentage of a request property, when it is a whole number
WholePercent(s) == ~parseFloat(s).nan /\ parseFloat(s).v % Unit = 0

\* t is base * (1 + sign * p / 100) rounded to five decimals (p a whole number,
\* base and t in units)
IsScaledPrice(t, base, p, sign) ==
  LET exact100 == base.v * (100 + sign * (parseFloat(p).v \div Unit))
      diff == 100 * t.v - exact100
  IN  ~t.nan /\ (IF diff < 0 THEN 0 - diff ELSE diff) <= 50

StopLossFromPositionMark ==
  \A c \in Clients : \A i \in RequestsOf(c, "order.create") :
    LET body == trace[c][i].payload
        entry == parseFloat(positionData[c].entryPrice)
        base == IF Gt(entry, Num(0)) THEN entry ELSE parseFloat(positionData[c].markPrice)
    IN  (Truthy(NormalizedParams, "stopLoss") /\ WholePercent(NormalizedParams.stopLoss)) =>
          /\ Has(body, "stopLoss")
          /\ IsScaledPrice(body.stopLoss, base, NormalizedParams.stopLoss,
                           IF body.side = "Buy" THEN -1 ELSE 1)

\* the position list was read with retCode 0 and has no entry for the symbol
\* whose size is other than zero
NoOpenPosition(outcome, symbol) ==
  /\ Accepted(outcome)
  /\ Has(Props(outcome.data), "result") /\ Has(Props(outcome.data).result, "list")
  /\ LET l == Props(outcome.data).result.list
     IN  \A i \in 1..Len(l) :
           l[i].symbol # symbol \/ parseFloat(l[i].size).nan \/ parseFloat(l[i].size).v = 0

\* the settlement timer was started in the pipeline of client c
TimerStarted(c) == \E i \in 1..Len(trace[c]) : trace[c][i].ev \in {"timer", "timeout"}

\* C16: when the position list read by cancelOppositeOrders has no entry for
\* the symbol with non-zero size, it returns success=true with the
\* nothing-to-close message, no close order and no order-cancel request is
\* sent, and the settlement delay is not waited.
NothingToClose ==
  \A c \in Clients : \A i \in AnswersOf(c, "flatten.read") :
    NoOpenPosition(trace[c][i].outcome, orderParams.symbol) =>
      /\ cancelRes[c] = [success |-> TRUE, message |-> "No existing position to close"]
      /\ RequestsOf(c, "flatten.close") = {}
      /\ \A j \in 1..Len(trace[c]) :
           trace[c][j].ev = "request" =>
             /\ trace[c][j].endpoint \in {"/v5/position/list", "/v5/market/tickers",
                                          "/v5/order/create"}
             /\ trace[c][j].endpoint = "/v5/order/create" => trace[c][j].purpose = "order.create"
      /\ ~TimerStarted(c)

\* flatten read an entry of size zero and the new order went out next
NothingToCloseWitness ==
  \E c \in Clients : \E i \in AnswersOf(c, "flatten.read") :
    /\ NoOpenPosition(trace[c][i].outcome, orderParams.symbol)
    /\ Props(trace[c][i].outcome.data).result.list # << >>
    /\ RequestsOf(c, "order.create") # {}

\* the first entry of the position list that is an open position in the symbol
OpenPosition(outcome, symbol) ==
  LET l == Props(outcome.data).result.list
      open == { i \in 1..Len(l) : /\ l[i].symbol = symbol
                                  /\ ~parseFloat(l[i].size).nan
                                  /\ parseFloat(l[i].size).v # 0 }
  IN  l[CHOOSE i \in open : \A j \in open : i <= j]

Purposes == {"flatten.read", "flatten.close", "order.position", "order.ticker", "order.create"}

\* C19: no retries: in one webhook the pipeline of an account sends at most
\* one request of each kind (the position list of flatten, the close order,
\* the position list and the ticker of the submitter, the new order), so a
\* failed call is never sent again.
NoRetries ==
  \A c \in Clients :
    /\ \A p \in Purposes : Cardinality(RequestsOf(c, p)) <= 1
    /\ \A p \in Purposes : Cardinality(AnswersOf(c, p)) <= Cardinality(RequestsOf(c, p))
    /\ \A i \in 1..Len(trace[c]) :
         (trace[c][i].ev = "answer" /\ ~Accepted(trace[c][i].outcome)) =>
           \A j \in (i + 1)..Len(trace[c]) : trace[c][j].ev # "request"

\* a pipeline that sent all five requests and whose new order failed
NoRetriesWitness ==
  \E c \in Clients :
    /\ pc[c] = "done"
    /\ \A p \in Purposes : Cardinality(RequestsOf(c, p)) = 1
    /\ ~results[c].success

\* no entry of bybitConfigs has a non-empty key, secret and base URL
NoCredential ==
  \A i \in 1..Len(bybitConfigs) :
    \E k \in {"apiKey", "apiSecret", "baseUrl"} : bybitConfigs[i][k] \in {Null, ""}

CallsOf(fn) == { i \in 1..Len(calls) : calls[i].fn = fn }

\* the inputs of generateSignature in which two calls differ
InputsChanged(a, b) ==
  { k \in {"apiKey", "apiSecret", "timestamp", "payload"} : a.args[k] # b.args[k] }

\* C21: generateSignature is a function of (apiKey, apiSecret, timestamp,
\* payload): the HMAC is keyed with the secret and computed over timestamp,
\* apiKey, "5000" and payload in that order; equal inputs give equal
\* signatures, and two calls that differ in exactly one input differ in the
\* key or the message of the HMAC, hence in the signature.
SignatureDetermined ==
  \A i \in CallsOf("generateSignature") :
    /\ calls[i].ret.key = calls[i].args.apiSecret
    /\ calls[i].ret.message =
         calls[i].args.timestamp \o calls[i].args.apiKey \o "5000" \o calls[i].args.payload
    /\ \A j \in CallsOf("generateSignature") :
         /\ InputsChanged(calls[i], calls[j]) = {} => calls[i].ret = calls[j].ret
         /\ Cardinality(InputsChanged(calls[i], calls[j])) = 1 =>
              /\ \/ calls[i].ret.key # calls[j].ret.key
                 \/ calls[i].ret.message # calls[j].ret.message
              /\ calls[i].ret # calls[j].ret

\* two calls that differ in the timestamp alone, with different signatures
SignatureWitness ==
  \E i, j \in CallsOf("generateSignature") :
    /\ InputsChanged(calls[i], calls[j]) = {"timestamp"}
    /\ calls[i].ret # calls[j].ret

\* the sent requests of method m in the log
SentBy(m) == { i \in 1..Len(calls) : calls[i].call.method = m }

\* key a comes before key b in lexicographic order of the code units
LexLess(a, b) ==
  \E i \in 1..(Len(a) + 1) :
    /\ \A j \in 1..(i - 1) : j <= Len(b) /\ a[j] = b[j]
    /\ \/ i = Len(a) + 1 /\ Len(b) >= i
       \/ i <= Len(a) /\ i <= Len(b) /\ CharCode(a[i]) < CharCode(b[i])

\* the entries of a parameter object in ascending order of their keys
Ascending(params) ==
  LET n == Len(params)
      order == CHOOSE f \in [1..n -> 1..n] :
                 /\ \A x, y \in 1..n : x # y => f[x] # f[y]
                 /\ \A x \in 1..(n - 1) : LexLess(params[f[x]].key, params[f[x + 1]].key)
  IN  [x \in 1..n |-> params[order[x]]]

\* the canonical string of a parameter object: key=value of each entry in
\* ascending order of the keys, joined by '&'
Canonical(params) ==
  LET es == Ascending(params)
  IN  JoinWith([x \in 1..Len(es) |->
                  encodeURIComponent(es[x].key) \o "=" \o encodeURIComponent(es[x].value)],
               "&")

SameEntries(p, q) == { p[x] : x \in 1..Len(p) } = { q[x] : x \in 1..Len(q) }

\* C22: the query string of a GET does not depend on the insertion order of
\* the parameter object: it lists key=value in ascending lexicographic order
\* of the keys, joined by '&', so two objects with the same entries give the
\* same request URL and, at the same timestamp, the same signature.
QueryStringCanonical ==
  \A i \in SentBy("GET") :
    /\ calls[i].wire.url = calls[i].call.endpoint \o "?" \o Canonical(calls[i].call.params)
    /\ \A j \in SentBy("GET") :
         (SameEntries(calls[i].call.params, calls[j].call.params)
            /\ calls[i].call.endpoint = calls[j].call.endpoint) =>
           /\ calls[i].wire.url = calls[j].wire.url
           /\ calls[i].at = calls[j].at =>
                calls[i].wire.headers.sign = calls[j].wire.headers.sign

\* {b:2, a:1} and {a:1, b:2} sent at the same reading of the clock
QueryStringWitness ==
  \E i, j \in SentBy("GET") :
    /\ calls[i].call.params # calls[j].call.params
    /\ SameEntries(calls[i].call.params, calls[j].call.params)
    /\ calls[i].call.fn = "handleApiRequest" /\ calls[j].call.fn = "handleApiRequest"
    /\ calls[i].wire.url = "/v5/position/list?a=1&b=2"
    /\ calls[i].wire.headers.sign = calls[j].wire.headers.sign

\* what is transmitted as payload: the body of a POST, the query of a GET
Transmitted(c, payload) ==
  IF c.wire.method = "POST" THEN c.wire.body = payload
  ELSE c.wire.url = c.call.endpoint \o "?" \o payload /\ c.wire.body = Null

\* C23: every request carries the reading of the clock at the moment it was
\* built and a signature over that timestamp and the payload of this very
\* request, which is the body or the query string that is transmitted; a
\* later request built at a later reading carries neither the timestamp nor
\* the signature of an earlier one.
FreshSignaturePerCall ==
  \A i \in 1..Len(calls) :
    LET c == calls[i]
        key == bybitConfigs[1].apiKey
    IN  /\ c.wire.headers.timestamp = ToString(c.at)
        /\ c.wire.headers.apiKey = key /\ c.wire.headers.recvWindow = "5000"
        /\ c.wire.headers.sign.key = bybitConfigs[1].apiSecret
        /\ \E payload \in { getQueryString(k.params) :
                               k \in { x \in ClientCalls : x.method = "GET" } }
                            \cup { JSONstringify(k.params) :
                                     k \in { x \in ClientCalls : x.method = "POST" } } :
             /\ Transmitted(c, payload)
             /\ c.wire.headers.sign.message = ToString(c.at) \o key \o "5000" \o payload
        /\ c.call.params = CloseOrderParams /\ c.call.method = "POST" =>
             c.wire.body = "{\"category\":\"linear\",\"symbol\":\"BTCUSDT\",\"side\":\"Sell\","
                             \o "\"orderType\":\"Market\",\"qty\":\"5\",\"reduceOnly\":true}"
        /\ \A j \in 1..(i - 1) :
             calls[j].at < c.at =>
               /\ calls[j].wire.headers.timestamp # c.wire.headers.timestamp
               /\ calls[j].wire.headers.sign # c.wire.headers.sign

\* the same call sent twice, the second time at a later reading of the clock
FreshSignatureWitness ==
  \E i, j \in 1..Len(calls) :
    /\ i < j /\ calls[i].call = calls[j].call /\ calls[i].at < calls[j].at
    /\ calls[i].call.fn = "getPositionInfo"
    /\ calls[i].wire.headers.sign # calls[j].wire.headers.sign

\* the segments of a delimited string between the commas, without the
\* blanks around them (segment 0 is the first)
Segments(csvString) ==
  LET commas == { i \in 1..Len(csvString) : csvString[i] = "," }
      n == Cardinality(commas)
      \* the position of the k-th comma; 0 and Len + 1 stand for the two ends
      at(k) == IF k = 0 THEN 0
               ELSE IF k = n + 1 THEN Len(csvString) + 1
               ELSE CHOOSE i \in commas : Cardinality({ j \in commas : j < i }) = k - 1
      words(k) == SelectSeq(SubSeq(csvString, at(k) + 1, at(k + 1) - 1), LAMBDA t : t # " ")
  IN  [k \in 0..n |-> Join(words(k))]

\* segment i is omitted or empty
Unset(segs, i) == i \notin DOMAIN segs \/ segs[i] = ""

StringFields ==
  [price |-> 4, timeInForce |-> 5, takeProfit |-> 9, stopLoss |-> 10, tpTriggerBy |-> 11,
   slTriggerBy |-> 12, orderLinkId |-> 13]

\* C24: parseOrderString maps the comma-separated segments to fields by
\* fixed position: symbol, side, orderType, qty, price, timeInForce,
\* positionIdx, reduceOnly, closeOnTrigger, takeProfit, stopLoss,
\* tpTriggerBy, slTriggerBy, orderLinkId; an optional field whose segment is
\* omitted or empty is left unset, so "BTCUSDT,Buy,Market,0.001" yields
\* exactly the four required fields.
ParseByPosition ==
  \A i \in CallsOf("parseOrderString") :
    LET segs == Segments(calls[i].args)
        ret == calls[i].ret
    IN  /\ \A k \in 0..3 :
             ~Unset(segs, k) => ret[<< "symbol", "side", "orderType", "qty" >>[k + 1]] = segs[k]
        /\ \A f \in DOMAIN StringFields :
             IF Unset(segs, StringFields[f]) THEN f \notin DOMAIN ret
             ELSE f \in DOMAIN ret /\ ret[f] = segs[StringFields[f]]
        /\ IF Unset(segs, 6) THEN "positionIdx" \notin DOMAIN ret
           ELSE "positionIdx" \in DOMAIN ret
                  /\ (segs[6] = "0" => ret.positionIdx = 0)
                  /\ (segs[6] = "2" => ret.positionIdx = 2)
        /\ IF Unset(segs, 7) THEN "reduceOnly" \notin DOMAIN ret
           ELSE "reduceOnly" \in DOMAIN ret
                  /\ (ret.reduceOnly <=> segs[7] \in {"true", "TRUE"})
        /\ IF Unset(segs, 8) THEN "closeOnTrigger" \notin DOMAIN ret
           ELSE "closeOnTrigger" \in DOMAIN ret
                  /\ (ret.closeOnTrigger <=> segs[8] \in {"true", "TRUE"})
        /\ calls[i].args = << "BTCUSDT", ",", "Buy", ",", "Market", ",", "0.001" >> =>
             ret = [symbol |-> "BTCUSDT", side |-> "Buy", orderType |-> "Market", qty |-> "0.001"]

\* the example string was parsed, and a string that sets some optional
\* fields and leaves the segments between them empty
ParseWitness ==
  /\ \E i \in CallsOf("parseOrderString") :
       calls[i].args = << "BTCUSDT", ",", "Buy", ",", "Market", ",", "0.001" >>
  /\ \E i \in CallsOf("parseOrderString") :
       /\ DOMAIN calls[i].ret = {"symbol", "side", "orderType", "qty", "timeInForce",
                                 "positionIdx", "reduceOnly", "stopLoss", "tpTriggerBy",
                                 "orderLinkId"}
       /\ calls[i].ret.orderLinkId = "link-2"

\* Every exchange call returns and every timer fires, so a pipeline that can
\* take its next step takes it; the continuation of Promise.all runs once
\* the promises have resolved.
Fairness ==
  /\ \A c \in 1..MaxAccounts : WF_vars(c \in Clients /\ PipelineStep(c))
  /\ WF_vars(Respond)

SpecLive == Spec /\ Fairness

\* C25: provided every exchange call eventually returns, every webhook
\* request that arrived is eventually answered; the response is sent only
\* after all account pipelines of the request have finished, and once sent
\* it is never sent again or changed.
EveryWebhookAnswered ==
  /\ (request # << >>) ~> (stage = "responded" /\ response # << >>)
  /\ [](response # << >> => \A c \in Clients : pc[c] = "done")
  /\ [][response # << >> => response' = response]_vars

\* a webhook over two accounts was answered after both pipelines, one of
\* which had to wait for the settlement delay
EveryWebhookAnsweredWitness ==
  /\ stage = "responded" /\ Cardinality(Clients) = 2
  /\ \E c \in Clients : TimerStarted(c)

\* every request of purpose p of client c precedes every request of purpose q
Precedes(c, p, q) == \A i \in RequestsOf(c, p) : \A j \in RequestsOf(c, q) : i < j

\* C26: within the pipeline of one account the exchange calls occur in the
\* order position read, market read, flatten (position read, close order,
\* fixed delay), new-order submit: the snapshots used for take profit and
\* stop loss are read before the flatten step.
SnapshotsBeforeFlatten ==
  \A c \in Clients :
    /\ Precedes(c, "order.position", "order.ticker")
    /\ Precedes(c, "order.ticker", "flatten.read")
    /\ Precedes(c, "flatten.read", "flatten.close")
    /\ Precedes(c, "flatten.close", "order.create")
    /\ Precedes(c, "order.position", "order.create")
    /\ RequestsOf(c, "flatten.read") # {} =>
         RequestsOf(c, "order.position") # {} /\ RequestsOf(c, "order.ticker") # {}

(***************************************************************************)
(* The webhook with the exchange's side of a close order: the exchange     *)
(* accepts the order with retCode 0 and fills it some time later           *)
(***************************************************************************)
\* the close order of client c is filled: the position is flat from here on
Settle(c) ==
  /\ c \in Clients
  /\ \E i \in AnswersOf(c, "flatten.close") : Accepted(trace[c][i].outcome)
  /\ \A i \in 1..Len(trace[c]) : trace[c][i].ev # "settled"
  /\ trace' = [trace EXCEPT ![c] = Append(trace[c], [ev |-> "settled"])]
  /\ UNCHANGED << bybitConfigs, stage, request, orderParams, response, pc, cancelRes, closing,
                  positionData, marketData, results, calls, clock >>

NextSettle == Next \/ \E c \in Clients : Settle(c)

SpecSettle == Init /\ [][NextSettle]_vars

\* C27: when flatten has closed a position, the order-create request for the
\* new order is sent only when the position of the account on the exchange
\* is flat, whenever the exchange fills the close order.
NewOrderOnlyWhenFlat ==
  \A c \in Clients : \A i \in RequestsOf(c, "order.create") :
    closing[c] # << >> => \E k \in 1..(i - 1) : trace[c][k].ev = "settled"

\* C28: flatten closes an existing position whether it is opposite to or in
\* the direction of the incoming order: what cancelOppositeOrders sends and
\* returns is determined by the position list and the answer to the close
\* order, the same for newOrderSide Buy and Sell.
FlattenIgnoresOrderSide ==
  \A c \in Clients : \A i \in AnswersOf(c, "flatten.read") :
    LET outcome == trace[c][i].outcome
        symbol == orderParams.symbol
    IN  Accepted(outcome) =>
          IF NoOpenPosition(outcome, symbol)
          THEN /\ RequestsOf(c, "flatten.close") = {}
               /\ cancelRes[c] = [success |-> TRUE, message |-> "No existing position to close"]
          ELSE LET pos == OpenPosition(outcome, symbol)
               IN  /\ \E j \in RequestsOf(c, "flatten.close") :
                        trace[c][j].payload =
                          [category |-> "linear", symbol |-> symbol,
                           side |-> IF pos.side = "Buy" THEN "Sell" ELSE "Buy",
                           orderType |-> "Market", qty |-> pos.size, reduceOnly |-> TRUE]
                   /\ \A j \in AnswersOf(c, "flatten.close") :
                        (Accepted(trace[c][j].outcome) /\ pc[c] # "flatten.delay") =>
                          cancelRes[c] =
                            [success |-> TRUE,
                             message |-> "Successfully closed " \o pos.side \o " position of "
                                           \o pos.size \o " " \o symbol]

\* a Buy position closed ahead of a Buy order, and flatten returned success
FlattenSameDirectionWitness ==
  \E c \in Clients :
    /\ closing[c] # << >> /\ closing[c].side = "Buy" /\ orderParams.side = "Buy"
    /\ cancelRes[c] # << >> /\ cancelRes[c].success
    /\ RequestsOf(c, "flatten.close") # {}

\* the price the code derives for property k of the body
IsDerivedPrice(c, body, k) ==
  LET entry == parseFloat(positionData[c].entryPrice)
      base == IF Gt(entry, Num(0)) THEN entry ELSE parseFloat(marketData[c].lastPrice)
      up == IF k = "takeProfit" THEN body.side = "Buy" ELSE body.side # "Buy"
  IN  IsScaledPrice(body[k], base, NormalizedParams[k], IF up THEN 1 ELSE -1)

BaseBodyFields ==
  \A c \in Clients : \A i \in RequestsOf(c, "order.create") :
    LET body == trace[c][i].payload
        given == NormalizedParams
    IN  /\ body.category = "linear"
        /\ \A k \in {"symbol", "side", "orderType", "qty"} :
             /\ body[k] = given[k]
             /\ ~IsStringInput(request) => body[k] = request.body.o[k]
        /\ Has(body, "price") <=> (given.orderType = "Limit" /\ Truthy(given, "price"))
        /\ Has(body, "price") => body.price = given.price
        /\ IF Truthy(given, "timeInForce") THEN Has(body, "timeInForce")
                                                  /\ body.timeInForce = given.timeInForce
           ELSE IF given.orderType = "Limit" THEN Has(body, "timeInForce")
                                                    /\ body.timeInForce = "GTC"
           ELSE ~Has(body, "timeInForce")

\* a Market order whose request gave a price was sent without price and
\* without timeInForce
BaseBodyWitness ==
  \E c \in Clients : \E i \in RequestsOf(c, "order.create") :
    /\ NormalizedParams.orderType = "Market" /\ Truthy(NormalizedParams, "price")
    /\ ~Has(trace[c][i].payload, "price")
    /\ ~Has(trace[c][i].payload, "timeInForce")

\* the requests of the snapshot readers: the position list and the ticker
ReaderPurposes == {"flatten.read", "order.position", "order.ticker"}

CancelBeforeCreate ==
  \A c \in Clients :
    Precedes(c, "cancel.order", "order.create")

\* C33: in the placeFuturesOrder of src/utils/bybit.ts the promise always
\* resolves to a result record and never rejects, and whenever order-create
\* was answered with retCode 0 the caller receives success=true, also when
\* fetching or cancelling the opposite-side open orders fails.
LegacyNeverRejects ==
  \A c \in Clients :
    pc[c] = "done" =>
      /\ results[c].settled = "resolved"
      /\ Has(results[c].value, "success")
      /\ (\E i \in AnswersOf(c, "order.create") : Accepted(trace[c][i].outcome)) =>
           results[c].value.success

\* the answer lists an entry for the symbol
ListsSymbol(outcome, symbol) ==
  LET d == Props(outcome.data)
  IN  /\ Has(d, "result") /\ Has(d.result, "list")
      /\ \E k \in 1..Len(d.result.list) : d.result.list[k].symbol = symbol

\* C34: an account result with success=true is produced only if, in that
\* pipeline, flatten returned success, both snapshot reads were answered with
\* retCode 0 and an entry for the symbol, and an order-create request for the
\* new order was sent and answered with retCode 0; no call of the pipeline
\* ended in an HTTP error status or a network error, whatever retCode the
\* error body carries.
SuccessOnlyWhenAccepted ==
  \A c \in Clients :
    (pc[c] = "done" /\ results[c].success) =>
      /\ cancelRes[c] # << >> /\ cancelRes[c].success
      /\ \E i \in AnswersOf(c, "order.position") :
           Accepted(trace[c][i].outcome) /\ ListsSymbol(trace[c][i].outcome, orderParams.symbol)
      /\ \E i \in AnswersOf(c, "order.ticker") :
           Accepted(trace[c][i].outcome) /\ ListsSymbol(trace[c][i].outcome, orderParams.symbol)
      /\ \E i \in RequestsOf(c, "order.create") : \E j \in AnswersOf(c, "order.create") :
           i < j /\ Accepted(trace[c][j].outcome)
      /\ \A i \in 1..Len(trace[c]) :
           trace[c][i].ev = "answer" =>
             /\ trace[c][i].outcome.kind \notin {"status", "network"}
             /\ Accepted(trace[c][i].outcome)

\* an account ended with success=true after its flatten step closed a
\* position, in a webhook that was answered
SuccessWitness ==
  /\ stage = "responded"
  /\ \E c \in Clients :
       /\ results[c].success
       /\ closing[c] # << >>
       /\ RequestsOf(c, "order.create") # {}

\* the webhooks whose handler sent a close order for the position it read
Closers == { w \in DOMAIN pc : closing[w] # << >> /\ RequestsOf(w, "flatten.close") # {} }

\* C35: when two webhooks for the same account and symbol are handled
\* concurrently, at most one reduce-only close order is sent for one open
\* position: two handlers never both read the same open position and both
\* submit a close order for it.
OneCloseOrderPerPosition ==
  \A v \in Closers : \A w \in Closers : closing[v] = closing[w] => v = w

\* the base of the derived prices of client c: the entry price when it is
\* greater than 0, the last price otherwise
BasePrice(c) ==
  LET entry == parseFloat(positionData[c].entryPrice)
  IN  IF Gt(entry, Num(0)) THEN entry ELSE parseFloat(marketData[c].lastPrice)

\* C36: every derived takeProfit or stopLoss price of a submitted order body
\* is strictly positive whenever the base price is positive, for every
\* percentage the webhook accepts, percentages of 100 or more and negative
\* ones included.
DerivedPricesPositive ==
  \A c \in Clients : \A i \in RequestsOf(c, "order.create") :
    \A k \in {"takeProfit", "stopLoss"} :
      (Has(trace[c][i].payload, k) /\ Gt(BasePrice(c), Num(0))) =>
        Gt(trace[c][i].payload[k], Num(0))

\* the (timestamp, apiKey, payload) of call i of generateSignature
Triple(i) == << calls[i].args.timestamp, calls[i].args.apiKey, calls[i].args.payload >>

\* the timestamps of calls i and j have one length, and so have the keys
SameWidths(i, j) ==
  /\ Len(calls[i].args.timestamp) = Len(calls[j].args.timestamp)
  /\ Len(calls[i].args.apiKey) = Len(calls[j].args.apiKey)

\* C37 as stated: the HMAC input built by generateSignature is an injective
\* encoding of (timestamp, apiKey, payload): two different triples never
\* concatenate to the same signed string.
HmacInputInjective ==
  \A i \in CallsOf("generateSignature") : \A j \in CallsOf("generateSignature") :
    Triple(i) # Triple(j) => calls[i].ret.message # calls[j].ret.message

\* C37: the HMAC input built by generateSignature is timestamp, apiKey,
\* "5000" and payload concatenated without separators; it is an injective
\* encoding of (timestamp, apiKey, payload) over triples whose timestamps have
\* one length and whose keys have one length: two different such triples
\* never concatenate to the same signed string.
HmacInputInjectiveAtFixedWidth ==
  \A i \in CallsOf("generateSignature") : \A j \in CallsOf("generateSignature") :
    (Triple(i) # Triple(j) /\ SameWidths(i, j)) =>
      calls[i].ret.message # calls[j].ret.message

\* two calls whose timestamps, of one length, and keys, of one length, both
\* differ, signed over different strings
HmacInputWitness ==
  \E i, j \in CallsOf("generateSignature") :
    /\ SameWidths(i, j)
    /\ calls[i].args.timestamp # calls[j].args.timestamp
    /\ calls[i].args.apiKey # calls[j].args.apiKey
    /\ calls[i].args.payload = calls[j].args.payload
    /\ calls[i].ret.message # calls[j].ret.message

====
